---- MODULE Spec2Model ----
(***************************************************************************)
(* A model of iolib: the BigqueryTableManager (table resolution and the   *)
(* reconciling write) of iolib/bigquery.py and the permission             *)
(* reconciliation of iolib/drive.py.                                      *)
(*                                                                        *)
(* Python strings that the code splits are sequences of one-character     *)
(* strings; None is the record NoneVal; objects are records tagged with   *)
(* their Python type in the field "kind" (what isinstance inspects).      *)
(* The vendor clients are modelled by the remote state they read and      *)
(* change and by the log of the calls they receive.                       *)
(***************************************************************************)
EXTENDS Integers, Sequences, FiniteSets, TLC

VARIABLES
    pc,        \* position of the caller: "new", "idle", "failed", "df", "batch",
               \* "iter", "done"
    client,    \* self.client: [project]
    dataset,   \* self.dataset: NoneVal or a Dataset record
    table,     \* self.table: NoneVal or a Table record
    remote,    \* the warehouse: [datasets, tables]
    calls,     \* the remote calls of the current operation, in order
    frame,     \* arguments and locals of the current operation
    result     \* how the last operation ended

vars == <<pc, client, dataset, table, remote, calls, frame, result>>

-----------------------------------------------------------------------------
(* Bounds of the model *)

MaxLen == 5       \* longest table string handed to the constructor
MaxRows == 4      \* longest row sequence handed to write
MaxChunk == 3     \* largest chunk_size handed to write
MaxResult == 2    \* most rows a query returns

-----------------------------------------------------------------------------
(* Values *)

NoneVal == [kind |-> "None"]
Str(s) == [kind |-> "str", val |-> s]
Other == [kind |-> "other"]

NoSchema == "None"
Schemas == {"s1", "s2"}

DefaultProject == <<"d">>
Chars == {"a", "b", "."}

DatasetReference(project, dataset_id) ==
    [kind |-> "DatasetReference", project |-> project, dataset_id |-> dataset_id]

Dataset(project, dataset_id) ==
    [kind |-> "Dataset", project |-> project, dataset_id |-> dataset_id]

TableReference(project, dataset_id, table_id) ==
    [kind |-> "TableReference", project |-> project,
     dataset_id |-> dataset_id, table_id |-> table_id]

\* Table(table_ref, schema=schema): a local definition, not created.
Table(table_ref, schema) ==
    [kind |-> "Table", project |-> table_ref.project,
     dataset_id |-> table_ref.dataset_id, table_id |-> table_ref.table_id,
     schema |-> schema, created |-> FALSE]

\* table.reference
Reference(t) == TableReference(t.project, t.dataset_id, t.table_id)

RefKey(r) == <<r.project, r.dataset_id, r.table_id>>

\* Python truthiness of the values the code tests with `if x` / `not x`.
Truthy(v) ==
    CASE v.kind = "None" -> FALSE
      [] v.kind = "str" -> v.val # <<>>
      [] OTHER -> TRUE

Raised(exc, msg) == [status |-> "raised", exc |-> exc, msg |-> msg]

-----------------------------------------------------------------------------
(* str.split('.') and `'.' in s` *)

RECURSIVE SplitFrom(_, _, _)
SplitFrom(s, i, cur) ==
    IF i > Len(s) THEN <<cur>>
    ELSE IF s[i] = "." THEN <<cur>> \o SplitFrom(s, i + 1, <<>>)
    ELSE SplitFrom(s, i + 1, Append(cur, s[i]))

Split(s) == SplitFrom(s, 1, <<>>)

HasDot(s) == \E i \in 1..Len(s) : s[i] = "."

-----------------------------------------------------------------------------
(* The vendor client's fetches *)

\* client.get_table(table_ref): the remote table, or NotFound.
get_table(rem, table_ref) ==
    IF RefKey(table_ref) \in DOMAIN rem.tables
    THEN [found |-> TRUE,
          table |-> [kind |-> "Table", project |-> table_ref.project,
                     dataset_id |-> table_ref.dataset_id,
                     table_id |-> table_ref.table_id,
                     schema |-> rem.tables[RefKey(table_ref)],
                     created |-> TRUE]]
    ELSE [found |-> FALSE]

\* client.get_dataset(dataset_ref): the remote dataset, or NotFound.
get_dataset(rem, dataset_ref) ==
    IF <<dataset_ref.project, dataset_ref.dataset_id>> \in rem.datasets
    THEN [found |-> TRUE,
          dataset |-> Dataset(dataset_ref.project, dataset_ref.dataset_id)]
    ELSE [found |-> FALSE]

GetTableCall(table_ref) == [op |-> "get_table", ref |-> RefKey(table_ref)]
GetDatasetCall(dataset_ref) ==
    [op |-> "get_dataset", ref |-> <<dataset_ref.project, dataset_ref.dataset_id>>]

-----------------------------------------------------------------------------
(* BigqueryTableManager._get_or_define_table *)

\* a slip: the table defined locally is taken to exist
GetOrDefineMarksCreated(rem, table_ref, schema) ==
    LET got == get_table(rem, table_ref) IN
    IF got.found
    THEN [status |-> "ok", table |-> got.table, calls |-> <<GetTableCall(table_ref)>>]
    ELSE IF schema = NoSchema
    THEN [status |-> "raised", exc |-> "AssertionError",
          msg |-> <<"schema is required to create tables">>,
          calls |-> <<GetTableCall(table_ref)>>]
    ELSE [status |-> "ok",
          table |-> [Table(table_ref, schema) EXCEPT !.created = TRUE],
          calls |-> <<GetTableCall(table_ref)>>]

\* a slip: the table that is not found is created at once
GetOrDefineCreates(rem, table_ref, schema) ==
    LET got == get_table(rem, table_ref) IN
    IF got.found
    THEN [status |-> "ok", table |-> got.table, calls |-> <<GetTableCall(table_ref)>>]
    ELSE IF schema = NoSchema
    THEN [status |-> "raised", exc |-> "AssertionError",
          msg |-> <<"schema is required to create tables">>,
          calls |-> <<GetTableCall(table_ref)>>]
    ELSE [status |-> "ok",
          table |-> [Table(table_ref, schema) EXCEPT !.created = TRUE],
          calls |-> <<GetTableCall(table_ref),
                      [op |-> "create_table", ref |-> RefKey(table_ref),
                       schema |-> schema]>>]

_get_or_define_table(rem, table_ref, schema) ==
    LET got == get_table(rem, table_ref) IN
    IF got.found
    THEN [status |-> "ok", table |-> got.table, calls |-> <<GetTableCall(table_ref)>>]
    ELSE IF schema = NoSchema
    THEN [status |-> "raised", exc |-> "AssertionError",
          msg |-> <<"schema is required to create tables">>,
          calls |-> <<GetTableCall(table_ref)>>]
    ELSE [status |-> "ok", table |-> Table(table_ref, schema),
          calls |-> <<GetTableCall(table_ref)>>]

-----------------------------------------------------------------------------
(* BigqueryTableManager.__init__, stage by stage.  Every stage takes and  *)
(* returns the constructor's locals: st = [status, table, dataset,         *)
(* project, schema, client, self_table, self_dataset, calls] and passes a  *)
(* raised state through unchanged.                                         *)

\* a slip: the three-part form drops the project
ParseTableIdDropsProject(st) ==
    IF st.table.kind = "str" /\ HasDot(st.table.val)
    THEN LET splits == Split(st.table.val)
             n_splits == Len(splits)
         IN  IF n_splits \notin {2, 3}
             THEN [st EXCEPT !.status = "raised", !.exc = "AssertionError",
                             !.msg = <<"Invalid table_id", st.table.val>>]
             ELSE IF n_splits = 2
             THEN [st EXCEPT !.dataset = Str(splits[1]), !.table = Str(splits[2])]
             ELSE [st EXCEPT !.dataset = Str(splits[2]), !.table = Str(splits[3])]
    ELSE st

\* a slip: the parts beyond the third are dropped instead of rejected
ParseTableIdTakesFirstThree(st) ==
    IF st.table.kind = "str" /\ HasDot(st.table.val)
    THEN LET splits == Split(st.table.val)
             n_splits == Len(splits)
         IN  IF n_splits = 2
             THEN [st EXCEPT !.dataset = Str(splits[1]), !.table = Str(splits[2])]
             ELSE [st EXCEPT !.project = Str(splits[1]), !.dataset = Str(splits[2]),
                             !.table = Str(splits[3])]
    ELSE st

\* lines 71-79: extract components from table_id
ParseTableId(st) ==
    IF st.table.kind = "str" /\ HasDot(st.table.val)
    THEN LET splits == Split(st.table.val)
             n_splits == Len(splits)
         IN  IF n_splits \notin {2, 3}
             THEN [st EXCEPT !.status = "raised", !.exc = "AssertionError",
                             !.msg = <<"Invalid table_id", st.table.val>>]
             ELSE IF n_splits = 2
             THEN [st EXCEPT !.dataset = Str(splits[1]), !.table = Str(splits[2])]
             ELSE [st EXCEPT !.project = Str(splits[1]), !.dataset = Str(splits[2]),
                             !.table = Str(splits[3])]
    ELSE st

\* lines 81-84: a project other than the default one
SetProject(st) ==
    IF st.status = "raised" THEN st
    ELSE IF Truthy(st.project)
    THEN [st EXCEPT !.client = [project |-> st.project.val]]
    ELSE st

\* lines 86-92: table given as a bigquery object
TableFromObject(rem, st) ==
    IF st.status = "raised" THEN st
    ELSE IF st.table.kind = "Table"
    THEN [st EXCEPT !.self_table = st.table, !.dataset = Str(st.table.dataset_id)]
    ELSE IF st.table.kind = "TableReference"
    THEN LET r == _get_or_define_table(rem, st.table, st.schema) IN
         IF r.status = "raised"
         THEN [st EXCEPT !.status = "raised", !.exc = r.exc, !.msg = r.msg,
                         !.calls = st.calls \o r.calls]
         ELSE [st EXCEPT !.self_table = r.table, !.dataset = Str(r.table.dataset_id),
                         !.calls = st.calls \o r.calls]
    ELSE st

\* lines 94-106: the dataset
FetchDataset(rem, st, dataset_ref) ==
    LET got == get_dataset(rem, dataset_ref) IN
    IF got.found
    THEN [st EXCEPT !.self_dataset = got.dataset,
                    !.calls = Append(st.calls, GetDatasetCall(dataset_ref))]
    ELSE [st EXCEPT !.status = "raised", !.exc = "NotFound",
                    !.msg = <<"dataset", dataset_ref.dataset_id>>,
                    !.calls = Append(st.calls, GetDatasetCall(dataset_ref))]

ResolveDataset(rem, st) ==
    IF st.status = "raised" THEN st
    ELSE CASE st.dataset.kind = "Dataset" -> [st EXCEPT !.self_dataset = st.dataset]
           [] st.dataset.kind = "DatasetReference" -> FetchDataset(rem, st, st.dataset)
           [] st.dataset.kind = "str" ->
                FetchDataset(rem, st,
                             DatasetReference(st.client.project, st.dataset.val))
           [] st.dataset.kind = "None" ->
                IF st.table.kind # "None"
                THEN [st EXCEPT !.status = "raised", !.exc = "AssertionError",
                                !.msg = <<"Dataset required if table provided">>]
                ELSE st
           [] OTHER -> [st EXCEPT !.status = "raised", !.exc = "AssertionError",
                                  !.msg = <<"Invalid dataset">>]

\* lines 108-113: table given as a string
TableFromString(rem, st) ==
    IF st.status = "raised" THEN st
    ELSE IF st.table.kind = "str"
    THEN LET table_ref == TableReference(st.self_dataset.project,
                                         st.self_dataset.dataset_id, st.table.val)
             r == _get_or_define_table(rem, table_ref, st.schema)
         IN  IF r.status = "raised"
             THEN [st EXCEPT !.status = "raised", !.exc = r.exc, !.msg = r.msg,
                             !.calls = st.calls \o r.calls]
             ELSE [st EXCEPT !.self_table = r.table, !.calls = st.calls \o r.calls]
    ELSE IF Truthy(st.table) /\ st.table.kind \notin {"Table", "TableReference"}
    THEN [st EXCEPT !.status = "raised", !.exc = "AssertionError",
                    !.msg = <<"Invalid table">>]
    ELSE st

\* The whole constructor.
ManagerInit(rem, table_arg, dataset_arg, project_arg, schema_arg) ==
    LET st0 == [status |-> "ok", exc |-> "", msg |-> <<>>,
                table |-> table_arg, dataset |-> dataset_arg,
                project |-> project_arg, schema |-> schema_arg,
                client |-> [project |-> DefaultProject],
                self_table |-> NoneVal, self_dataset |-> NoneVal,
                calls |-> <<>>]
        \* each stage is evaluated once, on the value the stage before left
        parsed == {ParseTableId(st0)}
        projected == {SetProject(st) : st \in parsed}
        from_object == {TableFromObject(rem, st) : st \in projected}
        with_dataset == {ResolveDataset(rem, st) : st \in from_object}
        from_string == {TableFromString(rem, st) : st \in with_dataset}
    IN  CHOOSE st \in from_string : TRUE

-----------------------------------------------------------------------------
(* The vendor client's writes.  A call that the remote state does not     *)
(* allow raises; any call may also raise for a reason of the remote's own *)
(* (`fails`).  The call is issued, and logged, either way.                 *)

CreateTableCall(t) ==
    [op |-> "create_table", ref |-> RefKey(t), schema |-> t.schema]
DeleteTableCall(table_ref) == [op |-> "delete_table", ref |-> RefKey(table_ref)]
InsertRowsCall(t, rows) == [op |-> "insert_rows", ref |-> RefKey(t), rows |-> rows]
InsertRowsFromDataframeCall(t, n_rows, chunk_size) ==
    [op |-> "insert_rows_from_dataframe", ref |-> RefKey(t),
     n_rows |-> n_rows, chunk_size |-> chunk_size]

\* client.create_table(table): the created table, or an exception.
create_table(rem, t, fails) ==
    IF fails \/ RefKey(t) \in DOMAIN rem.tables
             \/ <<t.project, t.dataset_id>> \notin rem.datasets
    THEN [status |-> "raised", remote |-> rem]
    ELSE [status |-> "ok",
          table |-> [t EXCEPT !.created = TRUE],
          remote |-> [rem EXCEPT !.tables =
                        [k \in DOMAIN rem.tables \cup {RefKey(t)} |->
                           IF k = RefKey(t) THEN t.schema ELSE rem.tables[k]]]]

\* client.delete_table(table_ref): None, or an exception.
delete_table(rem, table_ref, fails) ==
    IF fails \/ RefKey(table_ref) \notin DOMAIN rem.tables
    THEN [status |-> "raised", remote |-> rem]
    ELSE [status |-> "ok",
          remote |-> [rem EXCEPT !.tables =
                        [k \in DOMAIN rem.tables \ {RefKey(table_ref)} |->
                           rem.tables[k]]]]

-----------------------------------------------------------------------------
(* BigqueryTableManager.write, lines 255-279: validation and the           *)
(* preparation of the destination.  Returns how the section ends, the      *)
(* handle and the remote state it leaves, and the calls it issued.         *)

IfExistsValues == {"fail", "append", "replace"}

\* a slip: the table is created and the handle returned is dropped
CreateAndDiscard(rem, self_table, t, before, fail_create) ==
    LET c == create_table(rem, t, fail_create) IN
    IF c.status = "raised"
    THEN [status |-> "raised", exc |-> "VendorError", msg |-> <<"create_table">>,
          table |-> self_table, remote |-> c.remote,
          calls |-> Append(before, CreateTableCall(t))]
    ELSE [status |-> "ok", exc |-> "", msg |-> <<>>,
          table |-> self_table, remote |-> c.remote,
          calls |-> Append(before, CreateTableCall(t))]

\* self.table = self.client.create_table(t), after the calls in `before`
CreateAndAssign(rem, self_table, t, before, fail_create) ==
    LET c == create_table(rem, t, fail_create) IN
    IF c.status = "raised"
    THEN [status |-> "raised", exc |-> "VendorError", msg |-> <<"create_table">>,
          table |-> self_table, remote |-> c.remote,
          calls |-> Append(before, CreateTableCall(t))]
    ELSE [status |-> "ok", exc |-> "", msg |-> <<>>,
          table |-> c.table, remote |-> c.remote,
          calls |-> Append(before, CreateTableCall(t))]

\* a slip: the table is recreated without the schema it had
PrepareReplaceLosesSchema(rem, self_table, fail_delete, fail_create) ==
    IF self_table.created
    THEN LET table_ref == Reference(self_table)
             d == delete_table(rem, table_ref, fail_delete)
         IN  IF d.status = "raised"
             THEN [status |-> "raised", exc |-> "VendorError",
                   msg |-> <<"delete_table">>,
                   table |-> self_table, remote |-> d.remote,
                   calls |-> <<DeleteTableCall(table_ref)>>]
             ELSE CreateAndAssign(d.remote, self_table, Table(table_ref, NoSchema),
                                  <<DeleteTableCall(table_ref)>>, fail_create)
    ELSE CreateAndAssign(rem, self_table, self_table, <<>>, fail_create)

\* lines 268-276
PrepareReplace(rem, self_table, fail_delete, fail_create) ==
    IF self_table.created
    THEN LET schema == self_table.schema
             table_ref == Reference(self_table)
             d == delete_table(rem, table_ref, fail_delete)
         IN  IF d.status = "raised"
             THEN [status |-> "raised", exc |-> "VendorError",
                   msg |-> <<"delete_table">>,
                   table |-> self_table, remote |-> d.remote,
                   calls |-> <<DeleteTableCall(table_ref)>>]
             ELSE CreateAndAssign(d.remote, self_table, Table(table_ref, schema),
                                  <<DeleteTableCall(table_ref)>>, fail_create)
    ELSE CreateAndAssign(rem, self_table, self_table, <<>>, fail_create)

\* a slip: `fail` creates the table whether or not it exists
PrepareFailIgnoresCreated(rem, self_table, fail_create) ==
    CreateAndAssign(rem, self_table, self_table, <<>>, fail_create)

\* lines 260-266
PrepareFail(rem, self_table, fail_create) ==
    IF self_table.created
    THEN [status |-> "raised", exc |-> "ValueError",
          msg |-> <<"Table already exists">>,
          table |-> self_table, remote |-> rem, calls |-> <<>>]
    ELSE CreateAndAssign(rem, self_table, self_table, <<>>, fail_create)

\* a slip: `append` creates the table whether or not it exists
PrepareAppendAlwaysCreates(rem, self_table, fail_create) ==
    CreateAndAssign(rem, self_table, self_table, <<>>, fail_create)

\* lines 278-279
PrepareAppend(rem, self_table, fail_create) ==
    IF ~self_table.created
    THEN CreateAndAssign(rem, self_table, self_table, <<>>, fail_create)
    ELSE [status |-> "ok", exc |-> "", msg |-> <<>>,
          table |-> self_table, remote |-> rem, calls |-> <<>>]

\* a slip: line 258 is missing, the branches read `created` of None
WritePrepareWithoutTableAssert(rem, self_table, if_exists, fail_delete, fail_create) ==
    IF if_exists \notin IfExistsValues
    THEN [status |-> "raised", exc |-> "AssertionError",
          msg |-> <<"Invalid if_exists", if_exists>>,
          table |-> self_table, remote |-> rem, calls |-> <<>>]
    ELSE IF self_table.kind = "None"
    THEN [status |-> "raised", exc |-> "AttributeError",
          msg |-> <<"'NoneType' object has no attribute 'created'">>,
          table |-> self_table, remote |-> rem, calls |-> <<>>]
    ELSE CASE if_exists = "fail" -> PrepareFail(rem, self_table, fail_create)
           [] if_exists = "replace" ->
                PrepareReplace(rem, self_table, fail_delete, fail_create)
           [] OTHER -> PrepareAppend(rem, self_table, fail_create)

WritePrepare(rem, self_table, if_exists, fail_delete, fail_create) ==
    IF if_exists \notin IfExistsValues
    THEN [status |-> "raised", exc |-> "AssertionError",
          msg |-> <<"Invalid if_exists", if_exists>>,
          table |-> self_table, remote |-> rem, calls |-> <<>>]
    ELSE IF self_table.kind = "None"
    THEN [status |-> "raised", exc |-> "AssertionError",
          msg |-> <<"table is required to write">>,
          table |-> self_table, remote |-> rem, calls |-> <<>>]
    ELSE CASE if_exists = "fail" -> PrepareFail(rem, self_table, fail_create)
           [] if_exists = "replace" ->
                PrepareReplace(rem, self_table, fail_delete, fail_create)
           [] OTHER -> PrepareAppend(rem, self_table, fail_create)

-----------------------------------------------------------------------------
(* BigqueryTableManager.read and iread, lines 167-174 and 209-216.  A query *)
(* is a sequence of pieces of text; the piece "{table_id}" is the           *)
(* placeholder str.format fills in.                                         *)

Placeholder == "{table_id}"
\* (the backquotes of the source are written as apostrophes)
DefaultQuery == <<"SELECT * FROM '", Placeholder, "'">>

\* '.'.join(parts)
RECURSIVE Join(_)
Join(parts) ==
    IF Len(parts) = 0 THEN <<>>
    ELSE IF Len(parts) = 1 THEN parts[1]
    ELSE parts[1] \o <<".">> \o Join(Tail(parts))

\* the property _table_id
_table_id(cl, ds, self_table) ==
    Join(<<cl.project, ds.dataset_id, self_table.table_id>>)

\* query.format(table_id=table_id)
RECURSIVE Format(_, _)
Format(query, table_id) ==
    IF query = <<>> THEN <<>>
    ELSE (IF Head(query) = Placeholder THEN table_id ELSE <<Head(query)>>)
         \o Format(Tail(query), table_id)

\* _raise_table_not_found
NotFoundMessage(cl, ds, self_table) ==
    <<"Not found: Table ">> \o cl.project \o <<":">> \o ds.dataset_id
        \o <<".">> \o self_table.table_id

_raise_table_not_found(cl, ds, self_table) ==
    LET message == NotFoundMessage(cl, ds, self_table)
        error == [message |-> message, domain |-> "global", reason |-> "notFound"]
    IN  [status |-> "raised", exc |-> "NotFound", msg |-> message,
         errors |-> <<error>>]

QueryRequired(verb) ==
    Raised("AssertionError",
           <<"query is required when ", verb, " when no table is passed">>)

\* a slip: a query that is supplied is run without looking at the handle
ReadPrepareTrustsQuery(cl, ds, self_table, query, verb) ==
    IF ~(Truthy(self_table) \/ Truthy(query))
    THEN [status |-> "raised", error |-> QueryRequired(verb)]
    ELSE IF Truthy(self_table) /\ ~Truthy(query)
    THEN IF ~self_table.created
         THEN [status |-> "raised", error |-> _raise_table_not_found(cl, ds, self_table)]
         ELSE [status |-> "ok",
               query |-> Format(DefaultQuery, _table_id(cl, ds, self_table))]
    ELSE [status |-> "ok",
          query |-> IF Truthy(self_table)
                    THEN Format(query.val, _table_id(cl, ds, self_table))
                    ELSE query.val]

\* lines 167-174 (read, verb 'reading') and 209-216 (iread, verb 'ireading'):
\* the query that will be run, or the exception
ReadPrepare(cl, ds, self_table, query, verb) ==
    IF ~(Truthy(self_table) \/ Truthy(query))
    THEN [status |-> "raised", error |-> QueryRequired(verb)]
    ELSE IF Truthy(self_table)
    THEN IF ~self_table.created
         THEN [status |-> "raised", error |-> _raise_table_not_found(cl, ds, self_table)]
         ELSE LET q == IF Truthy(query) THEN query.val ELSE DefaultQuery
              IN  [status |-> "ok", query |-> Format(q, _table_id(cl, ds, self_table))]
    ELSE [status |-> "ok", query |-> query.val]

QueryCall(text) == [op |-> "query", text |-> text]

\* a slip: iread is a plain function, its checks run when it is called
IReadCallChecksEagerly(cl, ds, self_table, query) ==
    LET p == ReadPrepare(cl, ds, self_table, query, "ireading") IN
    IF p.status = "raised"
    THEN [status |-> "raised", error |-> p.error]
    ELSE [status |-> "ok", started |-> FALSE]

\* manager.iread(query, astype): the body holds `yield`, so the call runs
\* none of it and returns a generator that has not started
IReadCall(cl, ds, self_table, query) == [status |-> "ok", started |-> FALSE]

\* lines 219-228: the value yielded for a row
AsTypes == {"None", "dict", "pd.Series", "iterable", "callable"}

Shape(astype, row) ==
    CASE astype = "None" -> [shape |-> "Row", of |-> "row", row |-> row]
      [] astype = "dict" -> [shape |-> "dict", of |-> "items", row |-> row]
      [] astype = "pd.Series" -> [shape |-> "pd.Series", of |-> "items", row |-> row]
      [] astype = "iterable" -> [shape |-> "astype", of |-> "values", row |-> row]
      [] OTHER -> [shape |-> "astype", of |-> "row", row |-> row]

-----------------------------------------------------------------------------
(* Python's data[index_from:index_to] on a sequence (rows are numbered     *)
(* from 1 in the model, indices are Python's, from 0).                     *)

Min(a, b) == IF a < b THEN a ELSE b
Max(a, b) == IF a > b THEN a ELSE b

SliceIndex(i, n) == IF i < 0 THEN Max(i + n, 0) ELSE Min(i, n)

\* a slip: the window takes the row at index_to as well
SliceInclusive(data, index_from, index_to) ==
    LET lo == SliceIndex(index_from, Len(data))
        hi == SliceIndex(index_to + 1, Len(data))
    IN  IF lo < hi THEN SubSeq(data, lo + 1, hi) ELSE <<>>

Slice(data, index_from, index_to) ==
    LET lo == SliceIndex(index_from, Len(data))
        hi == SliceIndex(index_to, Len(data))
    IN  IF lo < hi THEN SubSeq(data, lo + 1, hi) ELSE <<>>

NoErrors == <<>>
SomeErrors == <<"An error from Bigquery">>

-----------------------------------------------------------------------------
(* Inputs *)

\* every sequence over S of length at most n
SeqsUpTo(S, n) == UNION {[1..k -> S] : k \in 0..n}

\* the rows of a list are numbered 1..n
Rows(n) == [i \in 1..n |-> i]

ListData == {[kind |-> "list", rows |-> Rows(n)] : n \in 0..MaxRows}
DataFrames == {[kind |-> "DataFrame", n_rows |-> n, has_cols |-> h] :
                 n \in {0, MaxRows}, h \in BOOLEAN}
ChunkSizes == -1..MaxChunk

SchemaArgs == Schemas \cup {NoSchema}
ProjectArgs == {NoneVal, Str(<<"b">>)}

\* the datasets and tables the remote may hold
DatasetUniverse == {<<DefaultProject, <<"a">>>>, <<<<"b">>, <<"a">>>>}
TableName == <<"b">>

RemoteStates ==
    {[datasets |-> ds, tables |-> t] :
        ds \in SUBSET DatasetUniverse,
        t \in UNION {[{<<d[1], d[2], TableName>> : d \in held} -> Schemas] :
                        held \in SUBSET DatasetUniverse}}

ConsistentRemote(rem) ==
    \A k \in DOMAIN rem.tables : <<k[1], k[2]>> \in rem.datasets

\* table, dataset arguments given as objects and plain names
ObjectTableArgs ==
    {NoneVal, Other, Str(TableName)}
    \cup {TableReference(d[1], d[2], TableName) : d \in DatasetUniverse}
    \cup {[Table(TableReference(DefaultProject, <<"a">>, TableName), "s1")
             EXCEPT !.created = c] : c \in BOOLEAN}
ObjectDatasetArgs ==
    {NoneVal, Other, Str(<<"a">>)}
    \cup {DatasetReference(d[1], d[2]) : d \in DatasetUniverse}
    \cup {Dataset(DefaultProject, <<"a">>)}

\* table given as any string over Chars
StringTableArgs == {Str(s) : s \in SeqsUpTo(Chars, MaxLen)}

\* table given as something the constructor fetches
FetchedTableArgs ==
    {Str(TableName)} \cup {TableReference(d[1], d[2], TableName) : d \in DatasetUniverse}

\* query arguments: none, the empty string, with and without the placeholder
QueryArgs ==
    {NoneVal, Str(<<>>), Str(<<"SELECT foo FROM '", Placeholder, "'">>),
     Str(<<"SELECT foo FROM bar">>)}

\* the rows a query may return
ResultRows == {Rows(n) : n \in 0..MaxResult}

\* whether the remote holds the table of the handle
RemoteHolds(rem, t) == t.kind = "Table" /\ RefKey(t) \in DOMAIN rem.tables

-----------------------------------------------------------------------------
(* Actions *)

InitManager ==
    /\ pc = "new"
    /\ client = [project |-> DefaultProject]
    /\ dataset = NoneVal
    /\ table = NoneVal
    /\ remote \in {r \in RemoteStates : ConsistentRemote(r)}
    /\ calls = <<>>
    /\ frame = [op |-> "none", prepared |-> FALSE]
    /\ result = [status |-> "none"]

\* manager = BigqueryTableManager(table, dataset, project, schema)
Construct(table_arg, dataset_arg, project_arg, schema_arg) ==
    /\ pc = "new"
    /\ \E st \in {ManagerInit(remote, table_arg, dataset_arg, project_arg, schema_arg)} :
           /\ frame' = [op |-> "init", table |-> table_arg, dataset |-> dataset_arg,
                        project |-> project_arg, schema |-> schema_arg,
                        prepared |-> FALSE]
           /\ calls' = st.calls
           /\ IF st.status = "raised"
              THEN /\ pc' = "failed"
                   /\ result' = Raised(st.exc, st.msg)
                   /\ UNCHANGED <<client, dataset, table>>
              ELSE /\ pc' = "idle"
                   /\ result' = [status |-> "returned"]
                   /\ client' = st.client
                   /\ dataset' = st.self_dataset
                   /\ table' = st.self_table
    /\ UNCHANGED remote

\* manager.write(data, if_exists, chunk_size): lines 255-279, up to the
\* first row submission.  `prepared` records whether an earlier write of
\* this manager passed the preparation, `passed` whether this one does.
Write(data, if_exists, chunk_size) ==
    /\ pc = "idle"
    /\ \E p \in {WritePrepare(remote, table, if_exists, fail_delete, fail_create) :
                   fail_delete \in BOOLEAN, fail_create \in BOOLEAN} :
             /\ calls' = p.calls
             /\ table' = p.table
             /\ remote' = p.remote
             /\ frame' = [op |-> "write", data |-> data, if_exists |-> if_exists,
                          chunk_size |-> chunk_size, index_to |-> 0,
                          before |-> table, held |-> RemoteHolds(remote, table),
                          errors |-> NoErrors, prepared |-> frame.prepared,
                          passed |-> p.status # "raised"]
             /\ IF p.status = "raised"
                THEN /\ pc' = "done"
                     /\ result' = Raised(p.exc, p.msg)
                ELSE /\ pc' = IF data.kind = "DataFrame" THEN "df" ELSE "batch"
                     /\ result' = [status |-> "running"]
    /\ UNCHANGED <<client, dataset>>

\* lines 282-288: the DataFrame is written in one vendor call
WriteDataFrame ==
    /\ pc = "df"
    /\ pc' = "done"
    /\ IF ~frame.data.has_cols
       THEN \* data[cols] of a column the frame lacks
            /\ result' = Raised("KeyError", <<"cols">>)
            /\ UNCHANGED <<calls, frame>>
       ELSE \E outcome \in IF frame.data.n_rows > 0
                            THEN {"ok", "errors", "raises"} ELSE {"ok", "raises"} :
              /\ calls' = Append(calls, InsertRowsFromDataframeCall(
                                   table, frame.data.n_rows, frame.chunk_size))
              /\ CASE outcome = "raises" ->
                        /\ result' = Raised("VendorError",
                                            <<"insert_rows_from_dataframe">>)
                        /\ UNCHANGED frame
                   [] outcome = "errors" ->
                        /\ frame' = [frame EXCEPT !.errors = SomeErrors]
                        /\ result' = [status |-> "returned"]
                   [] OTHER ->
                        /\ frame' = [frame EXCEPT !.errors = NoErrors]
                        /\ result' = [status |-> "returned"]
    /\ UNCHANGED <<client, dataset, table, remote>>

\* lines 292-303: one turn of the batch loop
WriteBatch ==
    /\ pc = "batch"
    /\ LET index_from == frame.index_to
           index_to == index_from + frame.chunk_size
           rows == Slice(frame.data.rows, index_from, index_to)
       IN  IF Len(rows) = 0
           THEN /\ pc' = "done"
                /\ result' = [status |-> "returned"]
                /\ frame' = [frame EXCEPT !.index_to = index_to]
                /\ UNCHANGED calls
           ELSE \E outcome \in {"ok", "errors", "raises"} :
                  /\ calls' = Append(calls, InsertRowsCall(table, rows))
                  /\ CASE outcome = "raises" ->
                            /\ pc' = "done"
                            /\ result' = Raised("VendorError", <<"insert_rows">>)
                            /\ frame' = [frame EXCEPT !.index_to = index_to]
                       [] outcome = "errors" ->
                            /\ pc' = "done"
                            /\ result' = Raised("Exception", SomeErrors)
                            /\ frame' = [frame EXCEPT !.index_to = index_to,
                                                      !.errors = SomeErrors]
                       [] OTHER ->
                            /\ pc' = "batch"
                            /\ result' = [status |-> "running"]
                            /\ frame' = [frame EXCEPT !.index_to = index_to,
                                                      !.errors = NoErrors]
    /\ UNCHANGED <<client, dataset, table, remote>>

\* manager.read(query)
Read(query) ==
    /\ pc = "idle"
    /\ pc' = "done"
    /\ frame' = [op |-> "read", query |-> query, before |-> table,
                 held |-> RemoteHolds(remote, table), prepared |-> frame.prepared]
    /\ LET p == ReadPrepare(client, dataset, table, query, "reading") IN
       IF p.status = "raised"
       THEN /\ result' = p.error
            /\ calls' = <<>>
       ELSE /\ calls' = <<QueryCall(p.query)>>
            /\ \/ result' = Raised("VendorError", <<"query">>)
               \/ \E rows \in ResultRows :
                    result' = [status |-> "returned",
                               value |-> [kind |-> "DataFrame", rows |-> rows]]
    /\ UNCHANGED <<client, dataset, table, remote>>

\* iterator = manager.iread(query, astype)
IRead(query, astype) ==
    /\ pc = "idle"
    /\ LET g == IReadCall(client, dataset, table, query) IN
       IF g.status = "raised"
       THEN /\ pc' = "done"
            /\ result' = g.error
            /\ frame' = [op |-> "iread", query |-> query, astype |-> astype,
                         started |-> TRUE, pulls |-> 0, rows |-> <<>>,
                         yielded |-> <<>>, before |-> table,
                         held |-> RemoteHolds(remote, table),
                         prepared |-> frame.prepared]
       ELSE /\ pc' = "iter"
            /\ result' = [status |-> "returned"]
            /\ frame' = [op |-> "iread", query |-> query, astype |-> astype,
                         started |-> g.started, pulls |-> 0, rows |-> <<>>,
                         yielded |-> <<>>, before |-> table,
                         held |-> RemoteHolds(remote, table),
                         prepared |-> frame.prepared]
    /\ calls' = <<>>
    /\ UNCHANGED <<client, dataset, table, remote>>

\* the generator runs to its next yield, or to its end
Yield(rows, yielded, pulls) ==
    IF Len(yielded) < Len(rows)
    THEN /\ pc' = "iter"
         /\ result' = [status |-> "yielded",
                       value |-> Shape(frame.astype, rows[Len(yielded) + 1])]
         /\ frame' = [frame EXCEPT !.started = TRUE, !.pulls = pulls, !.rows = rows,
                                   !.yielded = Append(yielded, result'.value)]
    ELSE /\ pc' = "done"
         /\ result' = Raised("StopIteration", <<>>)
         /\ frame' = [frame EXCEPT !.started = TRUE, !.pulls = pulls, !.rows = rows]

\* next(iterator): lines 209-218 on the first pull, then lines 218-228
Pull ==
    /\ pc = "iter"
    /\ IF ~frame.started
       THEN LET p == ReadPrepare(client, dataset, table, frame.query, "ireading") IN
            IF p.status = "raised"
            THEN /\ pc' = "done"
                 /\ result' = p.error
                 /\ frame' = [frame EXCEPT !.started = TRUE, !.pulls = 1]
                 /\ UNCHANGED calls
            ELSE /\ calls' = Append(calls, QueryCall(p.query))
                 /\ \/ /\ pc' = "done"
                       /\ result' = Raised("VendorError", <<"query">>)
                       /\ frame' = [frame EXCEPT !.started = TRUE, !.pulls = 1]
                    \/ \E rows \in ResultRows : Yield(rows, <<>>, 1)
       ELSE /\ Yield(frame.rows, frame.yielded, frame.pulls + 1)
            /\ UNCHANGED calls
    /\ UNCHANGED <<client, dataset, table, remote>>

\* somebody else creates the table of the handle, or deletes it, after the
\* manager was constructed
RemoteChange ==
    /\ pc = "idle"
    /\ frame.op = "init"
    /\ table.kind = "Table"
    /\ LET r == IF RemoteHolds(remote, table)
                THEN delete_table(remote, Reference(table), FALSE)
                ELSE create_table(remote, table, FALSE)
       IN  /\ r.status = "ok"
           /\ remote' = r.remote
    /\ frame' = [op |-> "remote_change", prepared |-> frame.prepared]
    /\ UNCHANGED <<pc, client, dataset, table, calls, result>>

\* the call is over and the caller holds the manager for the next one
Return ==
    /\ pc = "done"
    /\ frame.op \in {"write", "read", "iread"}
    /\ pc' = "idle"
    /\ frame' = [op |-> "returned",
                 prepared |-> frame.prepared \/ (frame.op = "write" /\ frame.passed)]
    /\ calls' = <<>>
    /\ result' = [status |-> "none"]
    /\ UNCHANGED <<client, dataset, table, remote>>

-----------------------------------------------------------------------------
(* The manager built from objects and names, then written to *)

Init == InitManager

\* the position is tested before the inputs are drawn
Next ==
    \/ /\ pc = "new"
       /\ \E t \in ObjectTableArgs, d \in ObjectDatasetArgs,
             p \in ProjectArgs, s \in SchemaArgs : Construct(t, d, p, s)
    \/ /\ pc = "idle"
       /\ \E data \in ListData \cup DataFrames,
             if_exists \in IfExistsValues \cup {"other"},
             chunk_size \in ChunkSizes : Write(data, if_exists, chunk_size)
    \/ WriteDataFrame
    \/ WriteBatch
    \/ /\ pc = "idle"
       /\ \E query \in QueryArgs : Read(query)
    \/ /\ pc = "idle"
       /\ \E query \in QueryArgs, astype \in AsTypes : IRead(query, astype)
    \/ Pull

Spec == Init /\ [][Next]_vars

(* The manager built from a table it fetches, the remote changed by        *)
(* somebody else, then one call                                             *)

NextRemote ==
    \/ /\ pc = "new"
       /\ \E t \in FetchedTableArgs, d \in {NoneVal, Str(<<"a">>)},
             p \in ProjectArgs, s \in SchemaArgs : Construct(t, d, p, s)
    \/ RemoteChange
    \/ /\ pc = "idle"
       /\ \E data \in ListData, if_exists \in IfExistsValues :
            Write(data, if_exists, MaxChunk)
    \/ WriteBatch
    \/ /\ pc = "idle"
       /\ \E query \in QueryArgs : Read(query)
    \/ /\ pc = "idle"
       /\ \E query \in QueryArgs : IRead(query, "None")
    \/ Pull

SpecRemote == Init /\ [][NextRemote]_vars

(* The manager built from a table it fetches, then any sequence of calls *)

NextCalls ==
    \/ /\ pc = "new"
       /\ \E t \in FetchedTableArgs, d \in {NoneVal, Str(<<"a">>)},
             p \in ProjectArgs, s \in SchemaArgs : Construct(t, d, p, s)
    \/ /\ pc = "idle"
       /\ \E data \in ListData \cup DataFrames, if_exists \in IfExistsValues :
            Write(data, if_exists, MaxChunk)
    \/ WriteDataFrame
    \/ WriteBatch
    \/ /\ pc = "idle"
       /\ \E query \in QueryArgs : Read(query)
    \/ /\ pc = "idle"
       /\ \E query \in QueryArgs : IRead(query, "None")
    \/ Pull
    \/ Return

SpecCalls == Init /\ [][NextCalls]_vars

(* The manager built from a table string *)

NextParse ==
    /\ pc = "new"
    /\ \E t \in StringTableArgs, d \in {NoneVal, Str(<<"a">>)},
          p \in ProjectArgs, s \in SchemaArgs : Construct(t, d, p, s)

SpecParse == Init /\ [][NextParse]_vars

-----------------------------------------------------------------------------
(* iolib/drive.py: DrivePermissions and set_drive_permissions.  Here      *)
(* `remote` is the item's permissions on the file-hosting service, a map   *)
(* from email to [id, type, role], which is also what                      *)
(* manager.list(item_id).set_index('email').to_dict('index') returns.      *)

MaxPermissions == 2     \* longest list of desired permissions

Emails == <<"a@x.com", "b@x.com", "c@x.com">>
EmailSet == {Emails[i] : i \in 1..Len(Emails)}
DesiredEmails == {"a@x.com", "b@x.com"}

\* the id the service gives the permission of an email
PermissionId(email) == <<"id", email>>

Absent == "None"
RemoteRoles == {"reader", "writer", "owner"}

RemotePermissions ==
    UNION {[held -> {[id |-> "", type |-> "user", role |-> r] : r \in RemoteRoles}] :
             held \in SUBSET EmailSet}

DriveRemotes ==
    {[e \in DOMAIN m |-> [m[e] EXCEPT !.id = PermissionId(e)]] : m \in RemotePermissions}

\* a desired permission as the caller passes it: a None value stands for a
\* key that is absent or None, which line 273 drops
DesiredPermissions ==
    [email : DesiredEmails, role : {"reader", "owner", Absent},
     type : {Absent, "group", "bad"}]

\* line 274: the keys left after the None values are dropped
Keys(permission) ==
    {"email"} \cup (IF permission.role = Absent THEN {} ELSE {"role"})
              \cup (IF permission.type = Absent THEN {} ELSE {"type"})

\* line 275
ValidKeys(keys) == keys \in {{"email", "role"}, {"email", "role", "type"}}

\* a slip: the owner's role passes the check
ValidateRoleAcceptsOwner(role) == role \in {"writer", "commenter", "reader", "owner"}

\* DrivePermissions._validate_type / _validate_role
_validate_type(type) == type \in {"user", "group", "domain", "anyone"}
_validate_role(role) == role \in {"writer", "commenter", "reader"}

\* what the service does with a call it accepts
ApplyCreate(rem, email, role, type) ==
    [e \in DOMAIN rem \cup {email} |->
        IF e = email THEN [id |-> PermissionId(email), type |-> type, role |-> role]
        ELSE rem[e]]
ApplyUpdate(rem, permission_id, role) ==
    [e \in DOMAIN rem |->
        IF rem[e].id = permission_id THEN [rem[e] EXCEPT !.role = role] ELSE rem[e]]
ApplyDelete(rem, permission_id) ==
    [e \in {x \in DOMAIN rem : rem[x].id # permission_id} |-> rem[e]]

\* DrivePermissions.create(item_id, email, role, type='user')
CreatePermission(rem, email, role, type, fails) ==
    IF ~_validate_type(type)
    THEN [status |-> "raised", exc |-> "AssertionError",
          msg |-> <<"Invalid type", type>>, remote |-> rem, calls |-> <<>>]
    ELSE IF ~_validate_role(role)
    THEN [status |-> "raised", exc |-> "AssertionError",
          msg |-> <<"Invalid role", role>>, remote |-> rem, calls |-> <<>>]
    ELSE LET call == [op |-> "create", email |-> email, type |-> type, role |-> role,
                      sendNotificationEmail |->
                        IF type \in {"user", "group"} THEN "False" ELSE "unset"]
         IN  IF fails
             THEN [status |-> "raised", exc |-> "VendorError", msg |-> <<"create">>,
                   remote |-> rem, calls |-> <<call>>]
             ELSE [status |-> "ok", exc |-> "", msg |-> <<>>,
                   remote |-> ApplyCreate(rem, email, role, type), calls |-> <<call>>]

\* DrivePermissions.update(item_id, permission_id, role)
UpdatePermission(rem, permission_id, role, fails) ==
    IF ~_validate_role(role)
    THEN [status |-> "raised", exc |-> "AssertionError",
          msg |-> <<"Invalid role", role>>, remote |-> rem, calls |-> <<>>]
    ELSE LET call == [op |-> "update", permissionId |-> permission_id, role |-> role]
         IN  IF fails
             THEN [status |-> "raised", exc |-> "VendorError", msg |-> <<"update">>,
                   remote |-> rem, calls |-> <<call>>]
             ELSE [status |-> "ok", exc |-> "", msg |-> <<>>,
                   remote |-> ApplyUpdate(rem, permission_id, role), calls |-> <<call>>]

\* DrivePermissions.delete(item_id, permission_id)
DeletePermission(rem, permission_id, fails) ==
    LET call == [op |-> "delete", permissionId |-> permission_id]
    IN  IF fails
        THEN [status |-> "raised", exc |-> "VendorError", msg |-> <<"delete">>,
              remote |-> rem, calls |-> <<call>>]
        ELSE [status |-> "ok", exc |-> "", msg |-> <<>>,
              remote |-> ApplyDelete(rem, permission_id), calls |-> <<call>>]

\* a slip: the permission is looked up and left in the map
PopKeeps(map, email) == map

\* current_permissions_map.pop(email, None): the map that is left
Pop(map, email) == [e \in DOMAIN map \ {email} |-> map[e]]

\* lines 273-284: one desired permission against the map
ProcessPermission(rem, map, permission, fails) ==
    IF ~ValidKeys(Keys(permission))
    THEN [status |-> "raised", exc |-> "AssertionError",
          msg |-> <<"Permission with invalid keys">>,
          remote |-> rem, calls |-> <<>>, map |-> map]
    ELSE LET email == permission.email
             left == Pop(map, email)
         IN  IF email \notin DOMAIN map
             THEN [map |-> left] @@
                  CreatePermission(rem, email, permission.role,
                                   IF permission.type = Absent THEN "user"
                                   ELSE permission.type, fails)
             ELSE IF map[email].role # permission.role
             THEN [map |-> left] @@
                  UpdatePermission(rem, map[email].id, permission.role, fails)
             ELSE [status |-> "ok", exc |-> "", msg |-> <<>>,
                   remote |-> rem, calls |-> <<>>, map |-> left]

\* a slip: what is left in the map is deleted in `update` mode too
DeletesInEveryMode(mode) == TRUE

\* line 285: the modes that delete what is left in the map
DeletesRemaining(mode) == mode = "replace"

\* a slip: the owner is deleted like any other permission
DeletesOwners(current_permission) == TRUE

\* line 287: the permissions of the map that are deleted
ShouldDelete(current_permission) == current_permission.role # "owner"

\* the values of the map in the order the service listed them
MapOrder(map) == LET Held(e) == e \in DOMAIN map IN SelectSeq(Emails, Held)

InitDrive ==
    /\ pc = "new"
    /\ client = NoneVal
    /\ dataset = NoneVal
    /\ table = NoneVal
    /\ remote \in DriveRemotes
    /\ calls = <<>>
    /\ frame = [op |-> "none"]
    /\ result = [status |-> "none"]

\* set_drive_permissions(item_id, permissions, mode): lines 262-271
SetDrivePermissions(permissions, mode) ==
    /\ pc = "new"
    /\ frame' = [op |-> "set_drive_permissions", permissions |-> permissions,
                 mode |-> mode, i |-> 1, fetched |-> remote,
                 current_permissions_map |-> remote, issued |-> <<>>,
                 pending |-> <<>>, run |-> 1]
    /\ IF mode \notin {"update", "replace"}
       THEN /\ pc' = "done"
            /\ result' = Raised("AssertionError", <<"Invalid mode", mode>>)
            /\ calls' = <<>>
       ELSE /\ pc' = "permissions"
            /\ result' = [status |-> "running"]
            /\ calls' = <<[op |-> "list"]>>
    /\ UNCHANGED <<client, dataset, table, remote>>

\* lines 272-284: one turn of the loop over the desired permissions
PermissionStep ==
    /\ pc = "permissions"
    /\ frame.i <= Len(frame.permissions)
    /\ \E r \in {ProcessPermission(remote, frame.current_permissions_map,
                                   frame.permissions[frame.i], fails) :
                   fails \in BOOLEAN} :
         /\ calls' = calls \o r.calls
         /\ remote' = r.remote
         /\ frame' = [frame EXCEPT !.i = frame.i + 1,
                                   !.current_permissions_map = r.map,
                                   !.issued = Append(frame.issued, r.calls)]
         /\ IF r.status = "raised"
            THEN /\ pc' = "done"
                 /\ result' = Raised(r.exc, r.msg)
            ELSE /\ pc' = "permissions"
                 /\ UNCHANGED result
    /\ UNCHANGED <<client, dataset, table>>

\* line 285: the loop is over
PermissionsDone ==
    /\ pc = "permissions"
    /\ frame.i > Len(frame.permissions)
    /\ IF DeletesRemaining(frame.mode)
       THEN /\ pc' = "deletes"
            /\ frame' = [frame EXCEPT !.pending = MapOrder(frame.current_permissions_map)]
            /\ UNCHANGED result
       ELSE /\ pc' = "done"
            /\ result' = [status |-> "returned"]
            /\ UNCHANGED frame
    /\ UNCHANGED <<client, dataset, table, remote, calls>>

\* lines 286-288: one turn of the loop over what is left in the map
DeleteStep ==
    /\ pc = "deletes"
    /\ IF frame.pending = <<>>
       THEN /\ pc' = "done"
            /\ result' = [status |-> "returned"]
            /\ UNCHANGED <<frame, calls, remote>>
       ELSE LET current_permission == frame.current_permissions_map[Head(frame.pending)]
            IN  /\ frame' = [frame EXCEPT !.pending = Tail(frame.pending)]
                /\ IF ShouldDelete(current_permission)
                   THEN \E fails \in BOOLEAN :
                          LET r == DeletePermission(remote, current_permission.id, fails)
                          IN  /\ calls' = calls \o r.calls
                              /\ remote' = r.remote
                              /\ IF r.status = "raised"
                                 THEN /\ pc' = "done"
                                      /\ result' = Raised(r.exc, r.msg)
                                 ELSE UNCHANGED <<pc, result>>
                   ELSE UNCHANGED <<pc, result, calls, remote>>
    /\ UNCHANGED <<client, dataset, table>>

\* roles and types a caller may hand to create and update
RoleArgs == {"writer", "commenter", "reader", "owner", "bad"}
TypeArgs == {"user", "group", "domain", "anyone", "bad"}

\* DrivePermissions(...).create(item_id, email, role, type)
Create(email, role, type) ==
    /\ pc = "new"
    /\ pc' = "done"
    /\ frame' = [op |-> "create", email |-> email, role |-> role, type |-> type]
    /\ \E r \in {CreatePermission(remote, email, role, type, fails) :
                   fails \in BOOLEAN} :
         /\ calls' = r.calls
         /\ remote' = r.remote
         /\ result' = IF r.status = "raised" THEN Raised(r.exc, r.msg)
                      ELSE [status |-> "returned"]
    /\ UNCHANGED <<client, dataset, table>>

\* DrivePermissions(...).update(item_id, permission_id, role)
Update(permission_id, role) ==
    /\ pc = "new"
    /\ pc' = "done"
    /\ frame' = [op |-> "update", permission_id |-> permission_id, role |-> role]
    /\ \E r \in {UpdatePermission(remote, permission_id, role, fails) :
                   fails \in BOOLEAN} :
         /\ calls' = r.calls
         /\ remote' = r.remote
         /\ result' = IF r.status = "raised" THEN Raised(r.exc, r.msg)
                      ELSE [status |-> "returned"]
    /\ UNCHANGED <<client, dataset, table>>

NextDrive ==
    \/ /\ pc = "new"
       /\ \E permissions \in SeqsUpTo(DesiredPermissions, MaxPermissions),
             mode \in {"update", "replace", "other"} :
            SetDrivePermissions(permissions, mode)
    \/ PermissionStep
    \/ PermissionsDone
    \/ DeleteStep
    \/ /\ pc = "new"
       /\ \E email \in EmailSet, role \in RoleArgs, type \in TypeArgs :
            Create(email, role, type)
    \/ /\ pc = "new"
       /\ \E email \in DOMAIN remote, role \in RoleArgs :
            Update(remote[email].id, role)

SpecDrive == InitDrive /\ [][NextDrive]_vars

(* A run that returned, repeated at once with the same inputs *)

\* set_drive_permissions(item_id, permissions, mode) once more; `first` keeps
\* what the first run fetched
RunAgain ==
    /\ pc = "done"
    /\ frame.op = "set_drive_permissions"
    /\ frame.run = 1
    /\ result.status = "returned"
    /\ pc' = "permissions"
    /\ frame' = [op |-> "set_drive_permissions", permissions |-> frame.permissions,
                 mode |-> frame.mode, i |-> 1, fetched |-> remote,
                 current_permissions_map |-> remote, issued |-> <<>>,
                 pending |-> <<>>, run |-> 2, first |-> frame.fetched]
    /\ result' = [status |-> "running"]
    /\ calls' = <<[op |-> "list"]>>
    /\ UNCHANGED <<client, dataset, table, remote>>

NextDriveTwice ==
    \/ /\ pc = "new"
       /\ \E permissions \in SeqsUpTo(DesiredPermissions, MaxPermissions),
             mode \in {"update", "replace"} :
            SetDrivePermissions(permissions, mode)
    \/ PermissionStep
    \/ PermissionsDone
    \/ DeleteStep
    \/ RunAgain

SpecDriveTwice == InitDrive /\ [][NextDriveTwice]_vars

-----------------------------------------------------------------------------
(* iolib/sheets.py: write_sheets.  Here `remote` is the file-hosting       *)
(* service and the spreadsheet service behind it: [files, next_id,          *)
(* values], the files it holds, the id it gives the next file created and   *)
(* the range last written to each spreadsheet.                              *)

MaxCols == 27         \* most columns of a table handed to write_sheets
MaxSheetRows == 2     \* most rows of a table handed to write_sheets

MIME_TYPE == "application/vnd.google-apps.spreadsheet"

\* string.ascii_uppercase
Letters ==
    <<"A", "B", "C", "D", "E", "F", "G", "H", "I", "J", "K", "L", "M",
      "N", "O", "P", "Q", "R", "S", "T", "U", "V", "W", "X", "Y", "Z">>

\* s[i] with Python's indices: from 0, negative ones from the end
PyIndex(s, i) == IF i < 0 THEN s[Len(s) + i + 1] ELSE s[i + 1]

\* the files the service may hold at the start
File(id, name, parents, mime) ==
    [id |-> id, name |-> name, parents |-> parents, mimeType |-> mime]

FileUniverse ==
    {File(1, "n", {}, MIME_TYPE), File(2, "n", {"fld"}, MIME_TYPE),
     File(3, "n", {"fld"}, MIME_TYPE), File(4, "m", {}, MIME_TYPE),
     File(5, "n", {}, "text/csv")}

SheetsRemotes ==
    {[files |-> fs, next_id |-> Cardinality(FileUniverse) + 1, values |-> <<>>] :
        fs \in SUBSET FileUniverse}

\* format_search_query and files().list: a condition is part of the query
\* only for an argument that is truthy
list_drive(rem, name, folder_id, mime_type) ==
    {f \in rem.files :
        /\ name # "" => f.name = name
        /\ folder_id # "None" => folder_id \in f.parents
        /\ mime_type # "" => f.mimeType = mime_type}

\* a slip: an existing spreadsheet is deleted whatever if_exists says
ExistingDecisionIgnoresFail(n_matches, if_exists) ==
    IF n_matches = 0 THEN "none"
    ELSE IF n_matches > 1 THEN "multiple"
    ELSE "delete"

\* a slip: `replace` leaves the existing spreadsheet where it is
ExistingDecisionKeepsMatch(n_matches, if_exists) ==
    IF n_matches = 0 THEN "none"
    ELSE IF n_matches > 1 THEN "multiple"
    ELSE IF if_exists = "fail" THEN "exists"
    ELSE "none"

\* lines 129-137: what is done about the spreadsheets found
ExistingDecision(n_matches, if_exists) ==
    IF n_matches = 0 THEN "none"
    ELSE IF n_matches > 1 THEN "multiple"
    ELSE IF if_exists = "fail" THEN "exists"
    ELSE "delete"

\* a slip: a table of exactly len(ascii_uppercase) columns is refused
TooManyColumnsFromLast(n_cols) == ~(n_cols < Len(Letters))

\* line 149
TooManyColumns(n_cols) == ~(n_cols <= Len(Letters))

\* line 151: f'Sheet1!A1:{string.ascii_uppercase[n_cols-1]}{n_rows}'
RangeName(n_rows, n_cols) == <<"Sheet1!A1:", PyIndex(Letters, n_cols - 1), n_rows>>

\* what the services do with the calls they accept
FilesDelete(rem, file_id) ==
    [rem EXCEPT !.files = {f \in rem.files : f.id # file_id}]
FilesCreate(rem, body) ==
    [rem EXCEPT !.files = rem.files \cup
                   {File(rem.next_id, body.name, body.parents, body.mimeType)},
                !.next_id = rem.next_id + 1]
ValuesUpdate(rem, spreadsheet_id, range_name, values) ==
    [rem EXCEPT !.values =
        [k \in DOMAIN rem.values \cup {spreadsheet_id} |->
            IF k = spreadsheet_id THEN [range |-> range_name, values |-> values]
            ELSE rem.values[k]]]

\* tables: a DataFrame of n_rows rows and n_cols columns
SheetData == [n_rows : {0, MaxSheetRows}, n_cols : 0..MaxCols]

InitSheets ==
    /\ pc = "new"
    /\ client = NoneVal
    /\ dataset = NoneVal
    /\ table = NoneVal
    /\ remote \in SheetsRemotes
    /\ calls = <<>>
    /\ frame = [op |-> "none"]
    /\ result = [status |-> "none"]

\* write_sheets(data, name, if_exists, folder_id): lines 117-137
WriteSheets(data, name, if_exists, folder_id) ==
    /\ pc = "new"
    /\ IF if_exists \notin {"fail", "replace"}
       THEN /\ pc' = "done"
            /\ frame' = [op |-> "write_sheets", data |-> data, name |-> name,
                         if_exists |-> if_exists, folder_id |-> folder_id,
                         before |-> remote.files, listed |-> FALSE, matches |-> {},
                         spreadsheet_id |-> 0]
            /\ result' = Raised("AssertionError", <<"Invalid if_exists", if_exists>>)
            /\ calls' = <<>>
            /\ UNCHANGED remote
       ELSE LET list_call == [op |-> "files.list", name |-> name,
                              folder_id |-> folder_id, mime_type |-> MIME_TYPE]
                found == list_drive(remote, name, folder_id, MIME_TYPE)
                decision == ExistingDecision(Cardinality(found), if_exists)
                started == [op |-> "write_sheets", data |-> data, name |-> name,
                            if_exists |-> if_exists, folder_id |-> folder_id,
                            before |-> remote.files, listed |-> TRUE,
                            matches |-> found, spreadsheet_id |-> 0]
            IN  \/ \* files().list raises
                   /\ pc' = "done"
                   /\ frame' = [started EXCEPT !.listed = FALSE, !.matches = {}]
                   /\ result' = Raised("VendorError", <<"files.list">>)
                   /\ calls' = <<list_call>>
                   /\ UNCHANGED remote
                \/ /\ frame' = started
                   /\ CASE decision = "multiple" ->
                             /\ pc' = "done"
                             /\ result' = Raised("Exception",
                                    <<"Multiple spreadsheets found with name", name>>)
                             /\ calls' = <<list_call>>
                             /\ UNCHANGED remote
                        [] decision = "exists" ->
                             /\ pc' = "done"
                             /\ result' = Raised("ValueError",
                                                 <<"Spreadsheet already exists">>)
                             /\ calls' = <<list_call>>
                             /\ UNCHANGED remote
                        [] decision = "delete" ->
                             \* result['id'].iloc[0]
                             LET file_id == (CHOOSE f \in found : TRUE).id
                                 delete_call == [op |-> "files.delete",
                                                 fileId |-> file_id]
                             IN  /\ calls' = <<list_call, delete_call>>
                                 /\ \/ /\ pc' = "done"
                                       /\ result' = Raised("VendorError",
                                                           <<"files.delete">>)
                                       /\ UNCHANGED remote
                                    \/ /\ pc' = "create"
                                       /\ result' = [status |-> "running"]
                                       /\ remote' = FilesDelete(remote, file_id)
                        [] OTHER ->
                             /\ pc' = "create"
                             /\ result' = [status |-> "running"]
                             /\ calls' = <<list_call>>
                             /\ UNCHANGED remote
    /\ UNCHANGED <<client, dataset, table>>

\* lines 139-144: the empty spreadsheet
CreateSpreadsheet ==
    /\ pc = "create"
    /\ LET body == [name |-> frame.name, mimeType |-> MIME_TYPE,
                    parents |-> IF frame.folder_id # "None"
                                THEN {frame.folder_id} ELSE {}]
           create_call == [op |-> "files.create", body |-> body, fields |-> "id"]
       IN  /\ calls' = Append(calls, create_call)
           /\ \/ /\ pc' = "done"
                 /\ result' = Raised("VendorError", <<"files.create">>)
                 /\ UNCHANGED <<remote, frame>>
              \/ /\ pc' = "populate"
                 /\ remote' = FilesCreate(remote, body)
                 /\ frame' = [frame EXCEPT !.spreadsheet_id = remote.next_id]
                 /\ UNCHANGED result
    /\ UNCHANGED <<client, dataset, table>>

\* lines 146-168: the range and the values
Populate ==
    /\ pc = "populate"
    /\ pc' = "done"
    /\ LET n_cols == frame.data.n_cols
           n_rows == frame.data.n_rows + 1
       IN  IF TooManyColumns(n_cols)
           THEN /\ result' = Raised("AssertionError",
                       <<"Too many columns to write to spreadsheet", n_cols>>)
                /\ UNCHANGED <<calls, remote>>
           ELSE LET range_name == RangeName(n_rows, n_cols)
                    values == [rows |-> n_rows, cols |-> n_cols]
                    update_call == [op |-> "values.update",
                                    spreadsheetId |-> frame.spreadsheet_id,
                                    range |-> range_name,
                                    valueInputOption |-> "USER_ENTERED",
                                    values |-> values]
                IN  /\ calls' = Append(calls, update_call)
                    /\ \/ /\ result' = Raised("VendorError", <<"values.update">>)
                          /\ UNCHANGED remote
                       \/ /\ result' = [status |-> "returned",
                                        value |-> [id |-> frame.spreadsheet_id]]
                          /\ remote' = ValuesUpdate(remote, frame.spreadsheet_id,
                                                    range_name, values)
    /\ UNCHANGED <<client, dataset, table, frame>>

NextSheets ==
    \/ /\ pc = "new"
       /\ \E data \in SheetData, name \in {"n", ""},
             if_exists \in {"fail", "replace", "other"},
             folder_id \in {"None", "fld"} :
            WriteSheets(data, name, if_exists, folder_id)
    \/ CreateSpreadsheet
    \/ Populate

SpecSheets == InitSheets /\ [][NextSheets]_vars

-----------------------------------------------------------------------------
(* Properties *)

IsPrefix(a, b) == Len(a) <= Len(b) /\ SubSeq(b, 1, Len(a)) = a

CallsOf(names) == LET Named(c) == c.op \in names IN SelectSeq(calls, Named)

PrepCalls == CallsOf({"create_table", "delete_table"})
InsertRowsCalls == CallsOf({"insert_rows"})

\* positions in the log at which rows are submitted
SubmissionIndexes ==
    {i \in 1..Len(calls) :
        calls[i].op \in {"insert_rows", "insert_rows_from_dataframe"}}

InWrite == frame.op = "write"
InWriteWithTable == InWrite /\ frame.before.kind = "Table"

\* the transition table of the documentation
Decision(if_exists, created) ==
    CASE if_exists = "fail" /\ created -> "fail"
      [] if_exists = "replace" /\ created -> "recreate"
      [] if_exists = "append" /\ created -> "reuse"
      [] OTHER -> "create"

ExpectedCreate(t) ==
    [op |-> "create_table", ref |-> <<t.project, t.dataset_id, t.table_id>>,
     schema |-> t.schema]
ExpectedDelete(t) ==
    [op |-> "delete_table", ref |-> <<t.project, t.dataset_id, t.table_id>>]

ExpectedPrep(decision, t) ==
    CASE decision = "create" -> <<ExpectedCreate(t)>>
      [] decision = "recreate" -> <<ExpectedDelete(t), ExpectedCreate(t)>>
      [] OTHER -> <<>>

(* C1: write with a resolved table prepares the destination by exactly the  *)
(* action the pair (if_exists, table.created) selects: fail/yes fails with  *)
(* 'Table already exists', replace/yes deletes then recreates, append/yes   *)
(* reuses, every .../no creates; the preparation calls come before any row  *)
(* submission; any other if_exists is rejected with 'Invalid if_exists'     *)
(* before any remote call.                                                   *)
C1_PolicyTable ==
    InWrite =>
      IF frame.if_exists \notin {"fail", "replace", "append"}
      THEN /\ result = Raised("AssertionError",
                              <<"Invalid if_exists", frame.if_exists>>)
           /\ calls = <<>>
      ELSE frame.before.kind = "Table" =>
             LET decision == Decision(frame.if_exists, frame.before.created)
                 expected == ExpectedPrep(decision, frame.before)
             IN  /\ IsPrefix(PrepCalls, expected)
                 /\ IsPrefix(PrepCalls, calls)
                 /\ PrepCalls # expected =>
                      result.status = "raised" /\ result.exc = "VendorError"
                 /\ (decision = "fail") <=>
                      (result = Raised("ValueError", <<"Table already exists">>))

C1_Witness ==
    /\ InWriteWithTable
    /\ frame.if_exists = "replace"
    /\ frame.before.created
    /\ Len(PrepCalls) = 2
    /\ Len(InsertRowsCalls) > 0

C3_AlwaysDeleteThenCreate ==
    (InWriteWithTable /\ frame.if_exists = "replace" /\ SubmissionIndexes # {}) =>
      \E i, j \in 1..Len(calls) :
        /\ i < j
        /\ \A k \in SubmissionIndexes : j < k
        /\ calls[i] = ExpectedDelete(frame.before)
        /\ calls[j] = ExpectedCreate(frame.before)

(* C3, amended: with if_exists='replace' on a handle that is created, the  *)
(* log opens with delete_table then create_table of the same reference and  *)
(* the schema the handle held, and rows follow; on a handle that is not     *)
(* created it opens with create_table of the handle alone and no            *)
(* delete_table is issued.                                                  *)
C3_ReplacePreparation ==
    (InWriteWithTable /\ frame.if_exists = "replace" /\ SubmissionIndexes # {}) =>
      IF frame.before.created
      THEN /\ Len(calls) >= 3
           /\ calls[1] = ExpectedDelete(frame.before)
           /\ calls[2] = ExpectedCreate(frame.before)
           /\ \A k \in SubmissionIndexes : k >= 3
           /\ table.schema = frame.before.schema
      ELSE /\ Len(calls) >= 2
           /\ calls[1] = ExpectedCreate(frame.before)
           /\ \A k \in SubmissionIndexes : k >= 2
           /\ \A k \in 1..Len(calls) : calls[k].op # "delete_table"

C3_Witness ==
    /\ InWriteWithTable
    /\ frame.if_exists = "replace"
    /\ frame.before.created
    /\ frame.before.schema = "s2"
    /\ SubmissionIndexes # {}
    /\ pc = "done"
    /\ result.status = "returned"

(* C4: a list of N rows written with chunk_size B >= 1 is submitted in     *)
(* insert_rows calls of which the k-th carries rows (k-1)*B+1 .. min(k*B,N) *)
(* in order; a write that returns has issued ceil(N/B) of them; a call that *)
(* reports errors raises an exception carrying them and is the last call;   *)
(* nothing but insert_rows follows the first submission.                    *)
CeilDiv(n, b) == (n + b - 1) \div b

ExpectedBatch(k, b, n) ==
    [i \in 1..((IF k * b < n THEN k * b ELSE n) - (k - 1) * b) |-> (k - 1) * b + i]

C4_Batches ==
    (InWriteWithTable /\ frame.data.kind = "list" /\ frame.chunk_size >= 1
       /\ frame.if_exists \in {"fail", "replace", "append"}) =>
      LET b == frame.chunk_size
          n == Len(frame.data.rows)
          sent == InsertRowsCalls
      IN  /\ Len(sent) <= CeilDiv(n, b)
          /\ \A k \in 1..Len(sent) :
               /\ sent[k].rows = ExpectedBatch(k, b, n)
               /\ sent[k].ref = <<table.project, table.dataset_id, table.table_id>>
          /\ calls = PrepCalls \o sent
          /\ result.status = "returned" => Len(sent) = CeilDiv(n, b)
          /\ frame.errors # NoErrors =>
               /\ pc = "done"
               /\ result = Raised("Exception", frame.errors)
          /\ (pc = "done" /\ result.status = "raised" /\ result.exc = "Exception") =>
               frame.errors # NoErrors

C4_Witness ==
    /\ InWriteWithTable
    /\ frame.data.kind = "list"
    /\ frame.chunk_size >= 2
    /\ result.status = "returned"
    /\ Len(InsertRowsCalls) >= 2
    /\ Len(InsertRowsCalls[Len(InsertRowsCalls)].rows) < frame.chunk_size

(* C8: a DataFrame write whose insert_rows_from_dataframe call returned a  *)
(* non-empty error payload ends by raising an exception that carries the    *)
(* payload; it never returns normally.                                      *)
C8_DataFrameErrorsRaise ==
    (InWrite /\ frame.data.kind = "DataFrame" /\ pc = "done"
       /\ frame.errors # NoErrors) =>
      /\ result.status = "raised"
      /\ result.msg = frame.errors

(* C9: _get_or_define_table returns the fetched table when the remote      *)
(* holds it; when it does not and a schema was supplied, a table defined    *)
(* from the reference and the schema that is not created, with no           *)
(* create_table call; when it does not and no schema was supplied, it       *)
(* fails with 'schema is required to create tables'.                        *)
SchemaRequired == Raised("AssertionError", <<"schema is required to create tables">>)

C9_GetOrDefine ==
    (frame.op = "init" /\ frame.table.kind = "TableReference") =>
      LET key == <<frame.table.project, frame.table.dataset_id, frame.table.table_id>>
          held == key \in DOMAIN remote.tables
      IN  /\ \A i \in 1..Len(calls) : calls[i].op \in {"get_table", "get_dataset"}
          /\ (held /\ result.status = "returned") =>
               table = [kind |-> "Table", project |-> key[1], dataset_id |-> key[2],
                        table_id |-> key[3], schema |-> remote.tables[key],
                        created |-> TRUE]
          /\ (~held /\ frame.schema # NoSchema /\ result.status = "returned") =>
               table = [kind |-> "Table", project |-> key[1], dataset_id |-> key[2],
                        table_id |-> key[3], schema |-> frame.schema,
                        created |-> FALSE]
          /\ (result = SchemaRequired) <=> (~held /\ frame.schema = NoSchema)

C9_Witness ==
    /\ frame.op = "init"
    /\ frame.table.kind = "TableReference"
    /\ result.status = "returned"
    /\ table.kind = "Table"
    /\ ~table.created
    /\ table.schema = "s2"

(* C10: a table string '<dataset>.<table>' resolves that dataset and that  *)
(* table and leaves the client's project as it was without the string (the  *)
(* project argument, else the default); a string                            *)
(* '<project>.<dataset>.<table>' resolves all three and sets the client's   *)
(* project to <project>.  Neither is rejected as an invalid table id.       *)
DotsOf(s) == {i \in 1..Len(s) : s[i] = "."}
Least(S) == CHOOSE i \in S : \A j \in S : i <= j
Greatest(S) == CHOOSE i \in S : \A j \in S : j <= i

Resolved(project, dataset_id, table_id) ==
    /\ client.project = project
    /\ dataset.kind = "Dataset"
    /\ dataset.project = project
    /\ dataset.dataset_id = dataset_id
    /\ table.kind = "Table"
    /\ table.project = project
    /\ table.dataset_id = dataset_id
    /\ table.table_id = table_id

C10_TableString ==
    (frame.op = "init" /\ frame.table.kind = "str") =>
      LET str == frame.table.val
          dots == DotsOf(str)
          first == Least(dots)
          last == Greatest(dots)
          head == SubSeq(str, 1, first - 1)
          middle == SubSeq(str, first + 1, last - 1)
          tail == SubSeq(str, last + 1, Len(str))
      IN  /\ (Cardinality(dots) = 1 /\ head # <<>> /\ tail # <<>>) =>
               /\ result.status = "raised" => result.msg[1] # "Invalid table_id"
               /\ result.status = "returned" =>
                    Resolved(IF frame.project.kind = "str"
                             THEN frame.project.val ELSE DefaultProject,
                             head, tail)
          /\ (Cardinality(dots) = 2 /\ head # <<>> /\ middle # <<>> /\ tail # <<>>) =>
               /\ result.status = "raised" => result.msg[1] # "Invalid table_id"
               /\ result.status = "returned" => Resolved(head, middle, tail)

C10_Witness ==
    /\ frame.op = "init"
    /\ frame.table.kind = "str"
    /\ frame.table.val = <<"b", ".", "a", ".", "b">>
    /\ frame.project.kind = "None"
    /\ result.status = "returned"
    /\ client.project = <<"b">>

(* C11, as stated: every table string whose split on '.' has a number of   *)
(* parts other than 2 or 3 (1 part, 4 or more) makes the constructor fail   *)
(* with 'Invalid table_id `<the string>`'.                                  *)
InvalidTableId(str) == Raised("AssertionError", <<"Invalid table_id", str>>)

C11_EveryOtherCountFails ==
    (frame.op = "init" /\ frame.table.kind = "str") =>
      (Len(Split(frame.table.val)) \notin {2, 3} =>
         result = InvalidTableId(frame.table.val))

(* C11, amended: a table string with 4 or more parts makes the constructor *)
(* fail with 'Invalid table_id `<the string>`' before any remote call; a    *)
(* string with one part (no dot) is never rejected with that message, it is *)
(* taken as a plain table name; no other string is rejected with it.        *)
C11_InvalidTableId ==
    (frame.op = "init" /\ frame.table.kind = "str") =>
      LET n_parts == Cardinality(DotsOf(frame.table.val)) + 1 IN
      /\ n_parts >= 4 =>
           /\ pc = "failed"
           /\ result = InvalidTableId(frame.table.val)
           /\ calls = <<>>
      /\ n_parts <= 3 =>
           ~(result.status = "raised" /\ result.msg[1] = "Invalid table_id")
      /\ (n_parts = 1 /\ frame.dataset.kind = "str" /\ result.status = "returned") =>
           /\ table.kind = "Table"
           /\ table.table_id = frame.table.val

C11_Witness ==
    /\ frame.op = "init"
    /\ frame.table.kind = "str"
    /\ frame.table.val = <<"a", ".", "b", ".", ".">>
    /\ frame.project.kind = "str"
    /\ frame.schema # NoSchema
    /\ result = InvalidTableId(frame.table.val)

(* C12: read on a manager whose table handle is not created fails with     *)
(* NotFound, message 'Not found: Table <project>:<dataset>.<table>' (the    *)
(* manager's project, dataset and table) and errors exactly                 *)
(* [{message, domain: 'global', reason: 'notFound'}], and runs no query,    *)
(* with or without a query argument.                                        *)
C12_ReadNotFound ==
    (frame.op = "read" /\ table.kind = "Table" /\ ~table.created) =>
      LET message == <<"Not found: Table ">> \o client.project \o <<":">>
                       \o dataset.dataset_id \o <<".">> \o table.table_id
      IN  /\ pc = "done"
          /\ result.status = "raised"
          /\ result.exc = "NotFound"
          /\ result.msg = message
          /\ result.errors =
               <<[message |-> message, domain |-> "global", reason |-> "notFound"]>>
          /\ calls = <<>>

C12_Witness ==
    /\ frame.op = "read"
    /\ table.kind = "Table"
    /\ ~table.created
    /\ frame.query = Str(<<"SELECT foo FROM bar">>)
    /\ result.status = "raised"
    /\ result.msg = <<"Not found: Table ", "d", ":", "a", ".", "b">>

(* C13: calling iread raises nothing and issues no remote call; the        *)
(* missing-query check and the table-not-found check fail only at the first *)
(* pull; one iterator issues the query at most once; the rows are yielded   *)
(* once each, in the order of the result.                                   *)
C13_LazyIRead ==
    frame.op = "iread" =>
      /\ frame.pulls = 0 =>
           /\ pc = "iter"
           /\ result = [status |-> "returned"]
           /\ calls = <<>>
      /\ (result.status = "raised" /\ result.exc \in {"AssertionError", "NotFound"}) =>
           /\ frame.pulls = 1
           /\ calls = <<>>
      /\ (frame.pulls >= 1 /\ frame.before.kind = "None"
            /\ frame.query \in {NoneVal, Str(<<>>)}) =>
           result = Raised("AssertionError",
                           <<"query is required when ", "ireading",
                             " when no table is passed">>)
      /\ (frame.pulls >= 1 /\ frame.before.kind = "Table" /\ ~frame.before.created) =>
           (result.status = "raised" /\ result.exc = "NotFound")
      /\ Len(calls) <= 1
      /\ \A i \in 1..Len(calls) : calls[i].op = "query"
      /\ Len(frame.yielded) <= Len(frame.rows)
      /\ \A k \in 1..Len(frame.yielded) : frame.yielded[k].row = frame.rows[k]
      /\ pc = "iter" => Len(frame.yielded) = frame.pulls
      /\ result = Raised("StopIteration", <<>>) =>
           /\ Len(frame.yielded) = Len(frame.rows)
           /\ frame.pulls = Len(frame.rows) + 1
           /\ Len(calls) = 1

C13_Witness ==
    /\ frame.op = "iread"
    /\ frame.before.kind = "Table"
    /\ frame.astype = "dict"
    /\ Len(frame.yielded) >= 2
    /\ result = Raised("StopIteration", <<>>)

(* C14: with a table handle resolved, read and iread run the query (the    *)
(* default 'SELECT * FROM `{table_id}`' when none is given) with            *)
(* {table_id} replaced by '<project>.<dataset>.<table>' of the table        *)
(* handle, however the table was passed.                                    *)
C14_HandleTableId ==
    (frame.op \in {"read", "iread"} /\ table.kind = "Table" /\ Len(calls) > 0) =>
      LET q == IF frame.query \in {NoneVal, Str(<<>>)}
               THEN <<"SELECT * FROM '", "{table_id}", "'">> ELSE frame.query.val
          id == table.project \o <<".">> \o table.dataset_id \o <<".">> \o table.table_id
      IN  calls[1].text = Format(q, id)

\* the same, with the project of the client and the dataset of the manager
C14_ManagerTableId ==
    (frame.op \in {"read", "iread"} /\ table.kind = "Table" /\ Len(calls) > 0) =>
      LET q == IF frame.query \in {NoneVal, Str(<<>>)}
               THEN <<"SELECT * FROM '", "{table_id}", "'">> ELSE frame.query.val
          id == client.project \o <<".">> \o dataset.dataset_id \o <<".">> \o table.table_id
      IN  calls[1].text = Format(q, id)

(* C15: a manager constructed with no table has table None; on it every    *)
(* write with a valid if_exists fails with 'table is required to write'     *)
(* without any remote call, and the manager is left as it was.              *)
C15_WriteNeedsTable ==
    /\ (frame.op = "init" /\ frame.table.kind = "None" /\ result.status = "returned") =>
         table = NoneVal
    /\ (InWrite /\ frame.before.kind = "None"
          /\ frame.if_exists \in {"fail", "replace", "append"}) =>
         /\ pc = "done"
         /\ result = Raised("AssertionError", <<"table is required to write">>)
         /\ calls = <<>>
         /\ table = NoneVal

C15_Witness ==
    /\ InWrite
    /\ frame.before.kind = "None"
    /\ frame.if_exists = "append"
    /\ frame.data.kind = "list"
    /\ Len(frame.data.rows) > 0
    /\ dataset.kind = "Dataset"
    /\ result.status = "raised"

(* C20: each read, iread and write decides whether the table exists by     *)
(* what the remote holds at the time of the call: the existence the call    *)
(* goes by equals the remote's, also when the table was created or deleted  *)
(* remotely after the manager was constructed.                              *)
C20_ExistenceIsCurrent ==
    (/\ frame.op \in {"read", "iread", "write"}
     /\ frame.before.kind = "Table"
     /\ frame.op = "iread" => frame.pulls >= 1) =>
      frame.before.created = frame.held

(* C23: constructing a manager, whatever the table, dataset, project and   *)
(* schema passed, issues only get_table and get_dataset, each at most once: *)
(* never create_table, delete_table, insert_rows,                           *)
(* insert_rows_from_dataframe or query; a table that is not found while a   *)
(* schema is supplied is still not held by the remote afterwards.           *)
FetchOps == {"get_table", "get_dataset"}

C23_ConstructOnlyFetches ==
    frame.op = "init" =>
      /\ \A i \in 1..Len(calls) : calls[i].op \in FetchOps
      /\ \A i, j \in 1..Len(calls) : calls[i].op = calls[j].op => i = j
      /\ (table.kind = "Table" /\ ~table.created
            /\ frame.table.kind \in {"TableReference", "str"}) =>
           ~RemoteHolds(remote, table)

C23_Witness ==
    /\ frame.op = "init"
    /\ frame.table.kind = "str"
    /\ frame.schema # NoSchema
    /\ result.status = "returned"
    /\ table.kind = "Table"
    /\ ~table.created
    /\ Len(calls) = 2

(* C24: the batch loop of write ends for every integer chunk_size, and a   *)
(* write of a list that returns without error has submitted every row of    *)
(* the data to insert_rows exactly once.                                    *)
RECURSIVE Concat(_)
Concat(seqs) == IF seqs = <<>> THEN <<>> ELSE Head(seqs) \o Concat(Tail(seqs))

\* the rows submitted so far, in the order submitted
SubmittedRows == Concat([k \in 1..Len(InsertRowsCalls) |-> InsertRowsCalls[k].rows])

C24_EveryRowOnce ==
    (InWriteWithTable /\ frame.data.kind = "list" /\ pc = "done"
       /\ result.status = "returned") =>
      SubmittedRows = frame.data.rows

\* the same, for the chunk sizes that advance through the data
C24_EveryRowOncePositive ==
    (InWriteWithTable /\ frame.data.kind = "list" /\ pc = "done"
       /\ result.status = "returned" /\ frame.chunk_size >= 1) =>
      SubmittedRows = frame.data.rows

\* the loop takes at most one turn per row and one to find the end
C24_TurnsBounded ==
    (InWriteWithTable /\ frame.data.kind = "list") =>
      /\ Len(InsertRowsCalls) <= Len(frame.data.rows)
      /\ frame.chunk_size <= 0 => Len(InsertRowsCalls) <= 1

\* under a scheduler that keeps running the loop, the write ends
SpecLoopRuns == Spec /\ WF_vars(WriteBatch)

C24_LoopEnds == (pc = "batch") ~> (pc = "done")

(* C25: a write that passes the preparation of the table leaves the       *)
(* manager's handle a created table of the same reference; in any sequence  *)
(* of calls on one manager, a write(if_exists='fail') after an earlier      *)
(* write that passed it fails with 'Table already exists' and issues no     *)
(* call, and a read or iread after it never ends in the table-not-found     *)
(* error.                                                                   *)
HandleCreated == table.kind = "Table" /\ table.created

C25_HandleCreatedAfterWrite ==
    /\ (InWrite /\ frame.passed) =>
         /\ HandleCreated
         /\ Reference(table) = Reference(frame.before)
    /\ frame.prepared => HandleCreated
    /\ (InWrite /\ frame.prepared /\ frame.if_exists = "fail") =>
         /\ pc = "done"
         /\ result = Raised("ValueError", <<"Table already exists">>)
         /\ calls = <<>>
    /\ (frame.op \in {"read", "iread"} /\ frame.prepared) =>
         ~(result.status = "raised" /\ result.exc = "NotFound")

C25_Witness ==
    /\ InWrite
    /\ frame.prepared
    /\ frame.if_exists = "fail"
    /\ frame.before.created
    /\ result = Raised("ValueError", <<"Table already exists">>)

\* a read after a write that created the table
C25_ReadAfterWrite ==
    /\ frame.op = "read"
    /\ frame.prepared
    /\ result.status = "returned"

(* C26: a write with if_exists='replace' on a table the remote holds that  *)
(* fails at any step (delete_table, create_table or a batch) leaves the     *)
(* table held by the remote.                                                *)
C26_ReplaceKeepsTable ==
    (InWriteWithTable /\ frame.if_exists = "replace" /\ frame.held
       /\ pc = "done" /\ result.status = "raised") =>
      RemoteHolds(remote, frame.before)

\* the same, for every failure but that of create_table
C26_ReplaceKeepsTableUnlessCreateFails ==
    (InWriteWithTable /\ frame.if_exists = "replace" /\ frame.held
       /\ pc = "done" /\ result.status = "raised"
       /\ result # Raised("VendorError", <<"create_table">>)) =>
      RemoteHolds(remote, frame.before)

-----------------------------------------------------------------------------
(* Properties of set_drive_permissions *)

InSetDrivePermissions == frame.op = "set_drive_permissions"

DeleteIndexes == {i \in 1..Len(calls) : calls[i].op = "delete"}
DeletedIds == {calls[i].permissionId : i \in DeleteIndexes}

\* the emails the desired list names
NamedEmails == {frame.permissions[k].email : k \in 1..Len(frame.permissions)}

\* the fetched permissions that are neither named nor the owner's
Surplus ==
    {e \in DOMAIN frame.fetched :
        e \notin NamedEmails /\ frame.fetched[e].role # "owner"}

(* C5: in mode 'replace' a run that returns has issued, after all desired  *)
(* permissions were processed, one delete for each fetched permission whose *)
(* email the desired list does not name and whose role is not 'owner', and  *)
(* no other; in no mode and at no point is a delete issued for a fetched    *)
(* permission with role 'owner'.                                            *)
C5_ReplaceDeletes ==
    InSetDrivePermissions =>
      /\ \A i \in DeleteIndexes :
           /\ \E e \in Surplus : calls[i].permissionId = <<"id", e>>
           /\ \A e \in DOMAIN frame.fetched :
                frame.fetched[e].role = "owner" =>
                  calls[i].permissionId # frame.fetched[e].id
           /\ \A j \in DeleteIndexes : calls[j] = calls[i] => j = i
           /\ \A j \in i..Len(calls) : calls[j].op = "delete"
           /\ frame.i > Len(frame.permissions)
      /\ (pc = "done" /\ result.status = "returned" /\ frame.mode = "replace") =>
           DeletedIds = {frame.fetched[e].id : e \in Surplus}

C5_Witness ==
    /\ InSetDrivePermissions
    /\ pc = "done"
    /\ result.status = "returned"
    /\ frame.mode = "replace"
    /\ Len(frame.permissions) = 2
    /\ DeleteIndexes # {}
    /\ \E e \in DOMAIN frame.fetched :
         /\ e \notin NamedEmails
         /\ frame.fetched[e].role = "owner"
         /\ e \in DOMAIN remote

(* C6: in mode 'update' no delete is ever issued, whatever the desired     *)
(* list and the permissions the item has.                                   *)
C6_UpdateNeverDeletes ==
    (InSetDrivePermissions /\ frame.mode = "update") => DeleteIndexes = {}

C6_Witness ==
    /\ InSetDrivePermissions
    /\ frame.mode = "update"
    /\ pc = "done"
    /\ result.status = "returned"
    /\ Surplus # {}
    /\ \E i \in 1..Len(calls) : calls[i].op = "update"

(* C7: each desired permission that is processed has one of three          *)
(* outcomes, decided by the permission fetched for its email: none, one     *)
(* create with the desired email, role and type (type 'user' by default);   *)
(* one with another role, one update of that permission's id to the         *)
(* desired role; one with the same role, no call.                           *)
WellFormed(permission) ==
    /\ permission.role \in {"writer", "commenter", "reader"}
    /\ permission.type \in {"None", "user", "group", "domain", "anyone"}

OutcomeByFetched(permission) ==
    IF permission.email \notin DOMAIN frame.fetched
    THEN <<[op |-> "create", email |-> permission.email, role |-> permission.role,
            type |-> IF permission.type = "None" THEN "user" ELSE permission.type]>>
    ELSE IF frame.fetched[permission.email].role # permission.role
    THEN <<[op |-> "update", permissionId |-> frame.fetched[permission.email].id,
            role |-> permission.role]>>
    ELSE <<>>

\* the call without the notification flag
Bare(call) ==
    IF call.op = "create"
    THEN [op |-> "create", email |-> call.email, role |-> call.role, type |-> call.type]
    ELSE call

C7_OutcomeByFetched ==
    InSetDrivePermissions =>
      \A k \in 1..Len(frame.issued) :
        WellFormed(frame.permissions[k]) =>
          [n \in 1..Len(frame.issued[k]) |-> Bare(frame.issued[k][n])]
            = OutcomeByFetched(frame.permissions[k])

\* the same, for the first entry that names each email
C7_FirstOccurrences ==
    InSetDrivePermissions =>
      \A k \in 1..Len(frame.issued) :
        (/\ WellFormed(frame.permissions[k])
         /\ \A j \in 1..(k - 1) : frame.permissions[j].email # frame.permissions[k].email) =>
          [n \in 1..Len(frame.issued[k]) |-> Bare(frame.issued[k][n])]
            = OutcomeByFetched(frame.permissions[k])

(* C19: every create the library issues has a type in {user, group,       *)
(* domain, anyone} and a role in {writer, commenter, reader}, every update  *)
(* a role in {writer, commenter, reader}; an invalid type or role fails     *)
(* with 'Invalid type: "<t>"' / 'Invalid role: "<r>"' and that create or    *)
(* update is not issued; 'owner' is never sent, through create, update or   *)
(* set_drive_permissions.                                                   *)
Types == {"user", "group", "domain", "anyone"}
SettableRoles == {"writer", "commenter", "reader"}

C19_ValidatedCalls ==
    /\ \A i \in 1..Len(calls) :
         /\ calls[i].op = "create" =>
              calls[i].type \in Types /\ calls[i].role \in SettableRoles
         /\ calls[i].op = "update" => calls[i].role \in SettableRoles
    /\ frame.op = "create" =>
         /\ frame.type \notin Types =>
              /\ result = Raised("AssertionError", <<"Invalid type", frame.type>>)
              /\ calls = <<>>
         /\ (frame.type \in Types /\ frame.role \notin SettableRoles) =>
              /\ result = Raised("AssertionError", <<"Invalid role", frame.role>>)
              /\ calls = <<>>
         /\ (frame.type \in Types /\ frame.role \in SettableRoles) => Len(calls) = 1
    /\ frame.op = "update" =>
         IF frame.role \notin SettableRoles
         THEN /\ result = Raised("AssertionError", <<"Invalid role", frame.role>>)
              /\ calls = <<>>
         ELSE Len(calls) = 1
    /\ (InSetDrivePermissions /\ frame.issued # <<>>) =>
         LET k == Len(frame.issued)
             permission == frame.permissions[k]
             fetched_role == IF permission.email \in DOMAIN frame.fetched
                             THEN frame.fetched[permission.email].role ELSE "None"
         IN  /\ (result.status = "raised" /\ result.exc = "AssertionError") =>
                  frame.issued[k] = <<>>
             \* an entry that asks for the owner's role changes nothing
             /\ (permission.role = "owner" /\ permission.type \in {"None", "group"}
                   /\ fetched_role # "owner"
                   /\ \A j \in 1..(k - 1) :
                        frame.permissions[j].email # permission.email) =>
                  /\ result = Raised("AssertionError", <<"Invalid role", "owner">>)
                  /\ frame.issued[k] = <<>>

C19_Witness ==
    /\ InSetDrivePermissions
    /\ Len(frame.issued) = 2
    /\ frame.permissions[2].role = "owner"
    /\ frame.permissions[2].email \in DOMAIN frame.fetched
    /\ Len(calls) = 2
    /\ calls[2].op = "create"
    /\ result = Raised("AssertionError", <<"Invalid role", "owner">>)

(* C22: when set_drive_permissions fails because a desired entry is        *)
(* invalid (keys, type or role), no permission create, update or delete     *)
(* has been issued for any entry of the list, wherever the invalid entry    *)
(* stands.                                                                  *)
MutatingIndexes ==
    {i \in 1..Len(calls) : calls[i].op \in {"create", "update", "delete"}}

C22_InvalidEntryBeforeCalls ==
    (InSetDrivePermissions /\ result.status = "raised"
       /\ result.exc = "AssertionError") =>
      MutatingIndexes = {}

\* the same, for the invalid entry, those after it and the deletes
C22_InvalidEntryIssuesNothing ==
    (InSetDrivePermissions /\ result.status = "raised"
       /\ result.exc = "AssertionError" /\ frame.issued # <<>>) =>
      /\ frame.issued[Len(frame.issued)] = <<>>
      /\ frame.i = Len(frame.issued) + 1
      /\ DeleteIndexes = {}

(* C27: one run issues at most one create or update per distinct email,    *)
(* also for lists that name an email more than once, and never a create     *)
(* for an email that had a permission in the fetched state.                 *)
CallsFor(email) ==
    {i \in 1..Len(calls) :
        \/ calls[i].op = "create" /\ calls[i].email = email
        \/ calls[i].op = "update" /\ calls[i].permissionId = PermissionId(email)}

C27_OncePerEmail ==
    InSetDrivePermissions =>
      /\ \A email \in EmailSet \cup DesiredEmails : Cardinality(CallsFor(email)) <= 1
      /\ \A i \in 1..Len(calls) :
           calls[i].op = "create" => calls[i].email \notin DOMAIN frame.fetched

\* the same, for lists that name no email twice
DistinctEmails ==
    \A j, k \in 1..Len(frame.permissions) :
      frame.permissions[j].email = frame.permissions[k].email => j = k

C27_OncePerDistinctEmail ==
    (InSetDrivePermissions /\ DistinctEmails) =>
      /\ \A email \in EmailSet \cup DesiredEmails : Cardinality(CallsFor(email)) <= 1
      /\ \A i \in 1..Len(calls) :
           calls[i].op = "create" => calls[i].email \notin DOMAIN frame.fetched

(* C28: against a remote that applies each call and for a desired list    *)
(* with pairwise distinct emails and valid roles, a run in mode 'replace'   *)
(* that returns leaves the remote's non-owner (email, role) permissions     *)
(* equal to the desired ones, and the same run repeated at once issues no   *)
(* create, update or delete.                                                *)
ValidRoles ==
    \A k \in 1..Len(frame.permissions) : frame.permissions[k].role \in SettableRoles

NonOwnerPermissions(rem) ==
    {<<e, rem[e].role>> : e \in {x \in DOMAIN rem : rem[x].role # "owner"}}

DesiredSet ==
    {<<frame.permissions[k].email, frame.permissions[k].role>> :
        k \in 1..Len(frame.permissions)}

C28_ReplaceIsIdempotent ==
    (InSetDrivePermissions /\ frame.mode = "replace" /\ DistinctEmails
       /\ ValidRoles) =>
      /\ (pc = "done" /\ result.status = "returned") =>
           NonOwnerPermissions(remote) = DesiredSet
      /\ frame.run = 2 =>
           /\ MutatingIndexes = {}
           /\ remote = frame.fetched
           /\ result.status # "raised"

C28_Witness ==
    /\ InSetDrivePermissions
    /\ frame.mode = "replace"
    /\ frame.run = 2
    /\ Len(frame.permissions) = 1
    /\ DistinctEmails
    /\ ValidRoles
    /\ pc = "done"
    /\ result.status = "returned"
    /\ \E e \in DOMAIN frame.first : e \notin DOMAIN frame.fetched
    /\ \E e \in DOMAIN frame.fetched : e \notin DOMAIN frame.first
    /\ \E e \in DOMAIN frame.fetched : frame.fetched[e].role = "owner"

(* C29: no update is issued against a fetched permission whose role is     *)
(* 'owner', in either mode and for any desired list.                        *)
C29_OwnerNeverUpdated ==
    InSetDrivePermissions =>
      \A i \in 1..Len(calls) :
        calls[i].op = "update" =>
          \A e \in DOMAIN frame.fetched :
            frame.fetched[e].id = calls[i].permissionId =>
              frame.fetched[e].role # "owner"

-----------------------------------------------------------------------------
(* Properties of write_sheets *)

InWriteSheets ==
    frame.op = "write_sheets" /\ frame.if_exists \in {"fail", "replace"}

\* the calls that change the services' state, in the order issued
SheetMutations ==
    CallsOf({"files.delete", "files.create", "values.update"})

\* the spreadsheets of that name (in that folder) held when the call began
NamedSpreadsheets ==
    {f \in frame.before :
        /\ f.name = frame.name
        /\ f.mimeType = "application/vnd.google-apps.spreadsheet"
        /\ frame.folder_id # "None" => frame.folder_id \in f.parents}

(* C16: when the lookup by name returns more than one match, write_sheets  *)
(* fails with 'Multiple spreadsheets found with name "<name>"' for both     *)
(* if_exists values; when it returns exactly one and if_exists is 'fail',   *)
(* it fails with ValueError 'Spreadsheet already exists...'; in both cases  *)
(* no files.delete, files.create or values.update is issued.                *)
C16_ExistingRefused ==
    (InWriteSheets /\ frame.listed) =>
      /\ frame.name # "" => frame.matches = NamedSpreadsheets
      /\ Cardinality(frame.matches) > 1 =>
           /\ pc = "done"
           /\ result = Raised("Exception",
                              <<"Multiple spreadsheets found with name", frame.name>>)
           /\ SheetMutations = <<>>
           /\ remote.files = frame.before
      /\ (Cardinality(frame.matches) = 1 /\ frame.if_exists = "fail") =>
           /\ pc = "done"
           /\ result = Raised("ValueError", <<"Spreadsheet already exists">>)
           /\ SheetMutations = <<>>
           /\ remote.files = frame.before

C16_Witness ==
    /\ InWriteSheets
    /\ frame.listed
    /\ frame.name = "n"
    /\ frame.folder_id = "fld"
    /\ Cardinality(frame.matches) = 2
    /\ Cardinality(frame.before) > 2
    /\ frame.if_exists = "replace"
    /\ result.status = "raised"

(* C17: a write_sheets that returns has created a new spreadsheet and      *)
(* populated it with exactly one values.update, on the id files.create      *)
(* returned, never on a spreadsheet that existed before; with               *)
(* if_exists='replace' and exactly one match the mutations are              *)
(* files.delete(match id), files.create, values.update(new id), in that     *)
(* order; with no match no delete is issued.                                *)
C17_AlwaysCreatedFresh ==
    (InWriteSheets /\ frame.listed) =>
      LET expected_delete ==
            IF Cardinality(frame.matches) = 1 /\ frame.if_exists = "replace"
            THEN <<"files.delete">> ELSE <<>>
          expected == expected_delete \o <<"files.create", "values.update">>
          issued == [i \in 1..Len(SheetMutations) |-> SheetMutations[i].op]
      IN  /\ IsPrefix(issued, expected)
          /\ \A i \in 1..Len(SheetMutations) :
               /\ SheetMutations[i].op = "files.delete" =>
                    \E f \in frame.matches : f.id = SheetMutations[i].fileId
               /\ SheetMutations[i].op = "values.update" =>
                    /\ SheetMutations[i].spreadsheetId = frame.spreadsheet_id
                    /\ \A f \in frame.before :
                         f.id # SheetMutations[i].spreadsheetId
          /\ frame.matches = {} =>
               \A i \in 1..Len(calls) : calls[i].op # "files.delete"
          /\ result.status = "returned" =>
               /\ issued = expected
               /\ result.value.id = frame.spreadsheet_id
               /\ \E f \in remote.files :
                    /\ f.id = frame.spreadsheet_id
                    /\ f \notin frame.before
                    /\ f.name = frame.name
               /\ \A f \in frame.matches : f \notin remote.files

C17_Witness ==
    /\ InWriteSheets
    /\ frame.if_exists = "replace"
    /\ Cardinality(frame.matches) = 1
    /\ frame.folder_id = "None"
    /\ result.status = "returned"
    /\ Len(SheetMutations) = 3
    /\ Cardinality(remote.files) > 1

(* C18: write_sheets rejects every table of more than 26 columns with      *)
(* 'Too many columns to write to spreadsheet (<n_cols>)' carrying the       *)
(* column count and issues no values.update for it; no table of at most 26  *)
(* columns is rejected so.                                                  *)
TooManyColumnsError(n_cols) ==
    Raised("AssertionError", <<"Too many columns to write to spreadsheet", n_cols>>)

C18_ColumnLimit ==
    InWriteSheets =>
      LET n_cols == frame.data.n_cols
          reached == pc = "done" /\ frame.spreadsheet_id # 0
      IN  /\ n_cols > 26 =>
               /\ \A i \in 1..Len(calls) : calls[i].op # "values.update"
               /\ result.status # "returned"
               /\ reached => result = TooManyColumnsError(n_cols)
          /\ n_cols <= 26 =>
               /\ ~(result.status = "raised" /\ result.exc = "AssertionError")
               /\ reached =>
                    \E i \in 1..Len(calls) : calls[i].op = "values.update"

C18_Witness ==
    /\ InWriteSheets
    /\ frame.data.n_cols = 27
    /\ frame.data.n_rows > 0
    /\ result = TooManyColumnsError(27)

(* C21: when write_sheets fails its column-count check, no files.delete    *)
(* and no files.create has been issued: the files the service holds are     *)
(* those it held when the call began, for both if_exists values.            *)
C21_ColumnCheckBeforeMutations ==
    (InWriteSheets /\ result = TooManyColumnsError(frame.data.n_cols)) =>
      /\ SheetMutations = <<>>
      /\ remote.files = frame.before

(* C30: for 0 <= n_cols <= 26 the range write_sheets writes is             *)
(* 'Sheet1!A1:<L><n_rows+1>' with <L> the n_cols-th uppercase letter: it    *)
(* spans exactly n_cols columns and n_rows + 1 rows.                        *)
ColumnsSpanned(range_name) ==
    CHOOSE k \in 1..Len(Letters) : Letters[k] = range_name[2]

RowsSpanned(range_name) == range_name[3]

C30_RangeSpansData ==
    InWriteSheets =>
      \A i \in 1..Len(calls) :
        (calls[i].op = "values.update" /\ frame.data.n_cols \in 0..26) =>
          /\ calls[i].range[1] = "Sheet1!A1:"
          /\ ColumnsSpanned(calls[i].range) = frame.data.n_cols
          /\ RowsSpanned(calls[i].range) = frame.data.n_rows + 1

\* the same, for tables that have a column
C30_RangeOfColumns ==
    InWriteSheets =>
      \A i \in 1..Len(calls) :
        (calls[i].op = "values.update" /\ frame.data.n_cols \in 1..26) =>
          /\ calls[i].range[1] = "Sheet1!A1:"
          /\ ColumnsSpanned(calls[i].range) = frame.data.n_cols
          /\ RowsSpanned(calls[i].range) = frame.data.n_rows + 1

====
